---------------------------- MODULE Spec2Model ----------------------------
(***************************************************************************)
(* Cookie Privacy Guard: the background service worker (background.js)     *)
(* and the popup operations that write the stores it reads (popup).        *)
(*                                                                         *)
(* Text is modelled as a sequence of one-character strings, so that the    *)
(* substring searches, suffix tests and key concatenations of the source   *)
(* are computed and not assumed.  A handler is one action: everything it   *)
(* does up to its last statement happens in the step.  The browser's       *)
(* cookie-changed events are queued in the order the store changes.        *)
(***************************************************************************)
EXTENDS Integers, Sequences, FiniteSets, TLC

(***************************************************************************)
(* Bounds of the model.                                                    *)
(***************************************************************************)
\* Date.now() takes the values 1..MaxTime.
MaxTime == 2
\* At most MaxQueue undelivered cookie-changed events when an outside
\* stimulus (page, user, navigation) arrives.
MaxQueue == 1

(***************************************************************************)
(* Text.                                                                   *)
(***************************************************************************)
UpperCase ==
    <<"A","B","C","D","E","F","G","H","I","J","K","L","M","N","O","P","Q","R","S","T","U","V","W","X","Y","Z">>
LowerCase ==
    <<"a","b","c","d","e","f","g","h","i","j","k","l","m","n","o","p","q","r","s","t","u","v","w","x","y","z">>

\* String.prototype.toLowerCase, one character
LowerChar(ch) ==
    IF \E i \in 1..Len(UpperCase) : UpperCase[i] = ch
    THEN LowerCase[CHOOSE i \in 1..Len(UpperCase) : UpperCase[i] = ch]
    ELSE ch

\* String.prototype.toLowerCase
toLowerCase(s) == [i \in 1..Len(s) |-> LowerChar(s[i])]

\* String.prototype.includes
includes(s, p) ==
    \E i \in 0..(Len(s) - Len(p)) : SubSeq(s, i + 1, i + Len(p)) = p

\* String.prototype.endsWith
endsWith(s, p) ==
    /\ Len(p) <= Len(s)
    /\ SubSeq(s, Len(s) - Len(p) + 1, Len(s)) = p

\* String.prototype.startsWith
startsWith(s, p) ==
    /\ Len(p) <= Len(s)
    /\ SubSeq(s, 1, Len(p)) = p

\* domain.replace(/^\./, '')
stripLeadingDot(d) == IF startsWith(d, <<".">>) THEN Tail(d) ELSE d

(***************************************************************************)
(* The classifier and the scorer's fixed tables.                           *)
(***************************************************************************)
dataPatterns ==
    [email |-> {<<"e","m","a","i","l">>, <<"m","a","i","l">>, <<"@">>},
     name |-> {<<"n","a","m","e">>, <<"u","s","e","r">>, <<"u","s","e","r","n","a","m","e">>, <<"f","u","l","l","n","a","m","e">>, <<"f","i","r","s","t","n","a","m","e">>, <<"l","a","s","t","n","a","m","e">>},
     location |-> {<<"l","o","c","a","t","i","o","n">>, <<"g","e","o">>, <<"l","a","t">>, <<"l","o","n","g">>, <<"g","p","s">>, <<"a","d","d","r","e","s","s">>, <<"c","i","t","y">>, <<"c","o","u","n","t","r","y">>, <<"z","i","p">>},
     device_info |-> {<<"d","e","v","i","c","e">>, <<"o","s">>, <<"b","r","o","w","s","e","r">>, <<"p","l","a","t","f","o","r","m">>, <<"u","s","e","r","a","g","e","n","t">>, <<"s","c","r","e","e","n">>, <<"r","e","s","o","l","u","t","i","o","n">>, <<"m","o","b","i","l","e">>},
     ip_address |-> {<<"i","p">>, <<"a","d","d","r","e","s","s">>, <<"r","e","m","o","t","e","a","d","d","r">>, <<"c","l","i","e","n","t","i","p">>},
     browsing_behavior |-> {<<"b","e","h","a","v","i","o","r">>, <<"c","l","i","c","k">>, <<"s","c","r","o","l","l">>, <<"m","o","v","e","m","e","n","t">>, <<"a","c","t","i","v","i","t","y">>, <<"h","i","s","t","o","r","y">>, <<"v","i","s","i","t">>, <<"v","i","s","i","t","o","r">>},
     preferences |-> {<<"p","r","e","f","e","r","e","n","c","e">>, <<"s","e","t","t","i","n","g">>, <<"c","o","n","f","i","g">>, <<"t","h","e","m","e">>, <<"l","a","n","g","u","a","g","e">>, <<"c","u","r","r","e","n","c","y">>, <<"p","r","e","f">>},
     session_data |-> {<<"s","e","s","s","i","o","n">>, <<"l","o","g","i","n">>, <<"t","o","k","e","n">>, <<"a","u","t","h">>, <<"p","a","s","s","w","o","r","d">>, <<"c","r","e","d","e","n","t","i","a","l">>, <<"s","i","d">>},
     marketing_data |-> {<<"a","d">>, <<"m","a","r","k","e","t","i","n","g">>, <<"c","a","m","p","a","i","g","n">>, <<"t","r","a","c","k","i","n","g">>, <<"a","n","a","l","y","t","i","c","s">>, <<"c","o","n","v","e","r","s","i","o","n">>},
     social_media_data |-> {<<"s","o","c","i","a","l">>, <<"f","a","c","e","b","o","o","k">>, <<"t","w","i","t","t","e","r">>, <<"l","i","n","k","e","d","i","n">>, <<"i","n","s","t","a","g","r","a","m">>, <<"g","o","o","g","l","e">>, <<"y","o","u","t","u","b","e">>},
     shopping_data |-> {<<"c","a","r","t">>, <<"b","a","s","k","e","t">>, <<"p","u","r","c","h","a","s","e">>, <<"p","r","o","d","u","c","t">>, <<"i","t","e","m">>, <<"p","r","i","c","e">>},
     demographic_data |-> {<<"a","g","e">>, <<"g","e","n","d","e","r">>, <<"b","i","r","t","h">>, <<"i","n","c","o","m","e">>, <<"e","d","u","c","a","t","i","o","n">>, <<"d","e","m","o","g","r","a","p","h","i","c">>}]

trackingPatterns ==
    {<<"_","g","a">>, <<"_","g","i","d">>, <<"_","f","b","p">>, <<"f","r">>, <<"t","r","a","c","k">>, <<"u","i","d">>, <<"a","n","a","l","y","t","i","c","s">>, <<"a","d">>, <<"p","i","x","e","l">>}

\* seconds in 365 days, the expiry horizon of the longevity bonus
OneYear == 31536000
\* Date.now() is in milliseconds, expirationDate in seconds
MsPerSecond == 1000
\* riskScore >= 3 is suspicious
SuspiciousThreshold == 3
\* riskScore >= 5 is auto-blocked
AutoBlockThreshold == 5
\* the third-party bonus
ThirdPartyBonus == 2
\* riskLevel 'high' from this score on
HighRisk == 5
\* riskLevel 'medium' from this score on
MediumRisk == 3

\* a classifier that also reads the cookie's secure flag
detectPotentialDataAndFlag(cookie) ==
    LET cookieStr == toLowerCase(cookie.name \o <<"=">> \o cookie.value)
    IN  {dataType \in DOMAIN dataPatterns :
            \/ \E pattern \in dataPatterns[dataType] : includes(cookieStr, pattern)
            \/ dataType = "session_data" /\ cookie.secure}

\* The set of categories with at least one keyword in name=value.
detectPotentialData(cookie) ==
    LET cookieStr == toLowerCase(cookie.name \o <<"=">> \o cookie.value)
    IN  {dataType \in DOMAIN dataPatterns :
            \E pattern \in dataPatterns[dataType] : includes(cookieStr, pattern)}

\* How many tracker patterns occur in the lower-cased name+value.
trackerMatches(cookie) ==
    LET cookieStr == toLowerCase(cookie.name \o cookie.value)
    IN  Cardinality({pattern \in trackingPatterns : includes(cookieStr, pattern)})

isSameDomain(cookieDomain, currentDomain) ==
    LET normCookieDomain == toLowerCase(stripLeadingDot(cookieDomain))
        normCurrentDomain == toLowerCase(stripLeadingDot(currentDomain))
    IN  \/ endsWith(normCurrentDomain, normCookieDomain)
        \/ endsWith(normCookieDomain, normCurrentDomain)

\* `${cookie.name}_${cookie.domain}`
cookieKeyOf(cookie) == cookie.name \o <<"_">> \o cookie.domain

\* `${protocol}//${domain}${cookie.path}`
getCookieUrl(cookie) ==
    [scheme |-> IF cookie.secure THEN "https" ELSE "http",
     hostname |-> IF startsWith(cookie.domain, <<".">>)
                  THEN Tail(cookie.domain) ELSE cookie.domain,
     path |-> cookie.path]


(***************************************************************************)
(* The cookies, sites and tabs of the model.                               *)
(***************************************************************************)
\* two cookies of one (name, domain) key that differ in their path
CookieSidRoot ==
    [name |-> <<"s","i","d">>, value |-> <<"1">>,
     domain |-> <<".","s","h","o","p",".","c","o","m">>, path |-> <<"/">>,
     secure |-> TRUE, expirationDate |-> 0]
CookieSidApp ==
    [name |-> <<"s","i","d">>, value |-> <<"1">>,
     domain |-> <<".","s","h","o","p",".","c","o","m">>, path |-> <<"/","a","p","p">>,
     secure |-> TRUE, expirationDate |-> 0]
\* a host-only, insecure, long-lived cookie with three categories and a tracker pattern
CookieUserEmail ==
    [name |-> <<"u","s","e","r","_","e","m","a","i","l">>, value |-> <<"a","d">>,
     domain |-> <<"w","w","w",".","s","h","o","p",".","c","o","m">>, path |-> <<"/">>,
     secure |-> FALSE, expirationDate |-> 3 * OneYear]

\* in the order the browser created them
CookieList == <<CookieSidRoot, CookieSidApp, CookieUserEmail>>
CookieUniverse == {CookieList[i] : i \in 1..Len(CookieList)}
CookieIndex(c) == CHOOSE i \in 1..Len(CookieList) : CookieList[i] = c
AllKeys == {cookieKeyOf(c) : c \in CookieUniverse}

UrlShop ==
    [scheme |-> "https", hostname |-> <<"w","w","w",".","s","h","o","p",".","c","o","m">>,
     path |-> <<"/","a","p","p">>]
UrlNews ==
    [scheme |-> "https", hostname |-> <<"n","e","w","s",".","o","r","g">>,
     path |-> <<"/">>]
HttpUrls == {UrlShop, UrlNews}

\* url.startsWith('http')
isHttpUrl(url) == url.scheme \in {"http", "https"}

\* tabs.query answers an empty list
NoTab == [url |-> [scheme |-> "none", hostname |-> <<>>, path |-> <<>>]]

\* What a run is about: the cookies the site uses, the tab the user stays on,
\* the urls that load, and the values the user gives the auto-block setting.
Scenarios ==
    {[cookies |-> {CookieSidRoot, CookieSidApp}, tab |-> [url |-> UrlShop],
      urls |-> {UrlShop}, autoBlock |-> {FALSE}],
     [cookies |-> {CookieUserEmail}, tab |-> [url |-> UrlShop],
      urls |-> {UrlShop}, autoBlock |-> BOOLEAN],
     [cookies |-> {CookieUserEmail}, tab |-> NoTab,
      urls |-> {UrlShop}, autoBlock |-> BOOLEAN]}

\* an optional timestamp is the empty set or the set of the one time it holds
Unset == {}

(***************************************************************************)
(* The browser's cookie store (chrome.cookies), as the extension sees it.  *)
(***************************************************************************)
domainMatches(cookieDomain, host) ==
    IF startsWith(cookieDomain, <<".">>)
    THEN host = Tail(cookieDomain) \/ endsWith(host, cookieDomain)
    ELSE host = cookieDomain

pathMatches(cookiePath, urlPath) ==
    \/ cookiePath = urlPath
    \/ /\ startsWith(urlPath, cookiePath)
       /\ \/ cookiePath[Len(cookiePath)] = "/"
          \/ urlPath[Len(cookiePath) + 1] = "/"

cookieMatchesUrl(c, url) ==
    /\ isHttpUrl(url)
    /\ domainMatches(c.domain, url.hostname)
    /\ pathMatches(c.path, url.path)
    /\ (c.secure => url.scheme = "https")

\* an entry's domain relates to the site: substring either way, leading dot stripped
relatedToSite(domain, hostname) ==
    LET cookieDomain == stripLeadingDot(domain)
    IN  includes(hostname, cookieDomain) \/ includes(cookieDomain, hostname)

(***************************************************************************)
(* The text computations above, computed once for the cookies, sites and   *)
(* urls of the model.                                                      *)
(***************************************************************************)
\* The cookies the pure functions are called with, besides those of the runs:
\* names and values with and without keywords, tracker patterns and upper
\* case, a first-party and a foreign domain, both secure flags, a session
\* cookie and a long-lived one.
ProbeNames == {<<"_","g","a">>, <<"u","s","e","r","_","e","m","a","i","l">>,
               <<"T","r","a","c","k">>}
ProbeValues == {<<"1">>, <<"a","d">>}
ProbeDomains == {<<".","s","h","o","p",".","c","o","m">>,
                 <<"t","r","a","c","k","e","r",".","n","e","t">>}
ProbeCookies ==
    {[name |-> n, value |-> v, domain |-> d, path |-> <<"/">>, secure |-> sec,
      expirationDate |-> e] :
        n \in ProbeNames, v \in ProbeValues, d \in ProbeDomains, sec \in BOOLEAN,
        e \in {0, 3 * OneYear}}

\* The cookies GET_AI_EXPLANATION is sent with: names with and without the
\* fallback's keywords, with and without the categories it looks for.
ExplainNames == {<<"s","i","d">>, <<"a","d","_","i","d">>,
                 <<"a","n","a","l","y","t","i","c","s">>, <<"p","r","e","f">>,
                 <<"x">>}
ExplainData == {{}, {"marketing_data"}, {"browsing_behavior"}, {"preferences"}}
ExplainCookies ==
    {[name |-> n, domain |-> <<".","s","h","o","p",".","c","o","m">>, potentialData |-> d,
      expirationDate |-> 0] : n \in ExplainNames, d \in ExplainData}
ExplainKeys == {cookieKeyOf(c) : c \in ExplainCookies}
\* no cached explanation
NoText == "none"

\* the same page over http, and a page of the browser itself
UrlShopHttp ==
    [scheme |-> "http", hostname |-> <<"w","w","w",".","s","h","o","p",".","c","o","m">>,
     path |-> <<"/","a","p","p">>]
UrlBrowser ==
    [scheme |-> "chrome", hostname |-> <<"n","e","w","t","a","b">>, path |-> <<"/">>]

Domains == {c.domain : c \in CookieUniverse \cup ProbeCookies}
Hostnames == {u.hostname : u \in HttpUrls \cup {UrlShopHttp, UrlBrowser}}
UrlUniverse ==
    HttpUrls \cup {UrlShopHttp, UrlBrowser} \cup {getCookieUrl(c) : c \in CookieUniverse}

KeyTable == [c \in CookieUniverse |-> cookieKeyOf(c)]
SameDomainTable == [d \in Domains |-> [h \in Hostnames |-> isSameDomain(d, h)]]
RelatedTable == [d \in Domains |-> [h \in Hostnames |-> relatedToSite(d, h)]]
MatchTable == [c \in CookieUniverse |-> [u \in UrlUniverse |-> cookieMatchesUrl(c, u)]]
IndexTable == [c \in CookieUniverse |-> CookieIndex(c)]
KeyIndexTable ==
    [k \in AllKeys |-> CHOOSE i \in 1..Len(CookieList) :
        /\ cookieKeyOf(CookieList[i]) = k
        /\ \A j \in 1..Len(CookieList) : cookieKeyOf(CookieList[j]) = k => i <= j]
PotentialDataTable == [c \in CookieUniverse \cup ProbeCookies |-> detectPotentialData(c)]
TrackerTable == [c \in CookieUniverse \cup ProbeCookies |-> trackerMatches(c)]

\* longest path first, then earliest created
listedBefore(c, d) ==
    \/ Len(c.path) > Len(d.path)
    \/ Len(c.path) = Len(d.path) /\ IndexTable[c] <= IndexTable[d]

RECURSIVE cookieListOf(_)
cookieListOf(S) ==
    IF S = {} THEN <<>>
    ELSE LET c == CHOOSE c \in S : \A d \in S : listedBefore(c, d)
         IN  <<c>> \o cookieListOf(S \ {c})

\* chrome.cookies.getAll({ url })
getAll(store, url) == cookieListOf({c \in store : MatchTable[c][url]})

\* What chrome.cookies.remove({ url, name }) does: it removes the cookie it
\* addresses (and resolves with nothing removed if there is none), or it rejects.
RemoveOutcomes == {"removed", "rejected"}

\* the cookie chrome.cookies.remove({ url, name }) addresses, as a set of at most one
removeTarget(store, url, cookieName) ==
    LET cands == {c \in store : c.name = cookieName /\ MatchTable[c][url]}
    IN  {c \in cands : \A d \in cands : listedBefore(c, d)}

\* chrome.cookies.remove: the store and the queue of cookie-changed events after it
cookiesRemove(store, queue, url, cookieName, outcome) ==
    LET target == removeTarget(store, url, cookieName)
    IN  IF outcome = "removed" /\ target # {}
        THEN [store |-> store \ target,
              queue |-> queue \o <<[removed |-> TRUE, cookie |-> CHOOSE c \in target : TRUE]>>]
        ELSE [store |-> store, queue |-> queue]

(***************************************************************************)
(* The state.                                                              *)
(***************************************************************************)
VARIABLES
    scenario,         \* what the run is about; it never changes
    now,              \* Date.now()
    activeTab,        \* the browser's active tab of the current window, or NoTab
    cookieStore,      \* the browser's cookie store
    eventQueue,       \* chrome.cookies.onChanged events not yet delivered
    pendingMessage,   \* the popup's UPDATE_COOKIE_PERMISSIONS message in flight, as a set
    activeTabDomain,  \* background.js: let activeTabDomain
    cookieStats,      \* background.js: let cookieStats
    cookieHistory,    \* background.js: let cookieHistory (a Map), NoEntry for an absent key
    storedHistory,    \* chrome.storage.local, key cookieHistory
    permissions,      \* chrome.storage.sync, keys cookie_<name>_<domain>, NoPermission if absent
    settings,         \* chrome.storage.sync, keys autoBlockHighRisk, showNotifications
    lastOp,           \* which operation came last and the cookies it sighted
    unblocked,        \* the last unblock, until an operation other than a sighting follows
    request,          \* the popup's query message and what became of it
    sightingTask,     \* a sighting handler suspended at an await: where, and what it has read
    blockTask,        \* handleCookiePermissionsUpdate suspended at an await: where
    overlap,          \* a sighting handler and a user block that run at the same time
    probe,            \* the last call of a pure function: its inputs and what it returned
    cookieExplanations \* background.js: let cookieExplanations (a Map), NoText if absent

\* the positions of the handlers that are suspended at an await
asyncVars == <<request, sightingTask, blockTask, overlap>>

vars == <<scenario, now, activeTab, cookieStore, eventQueue, pendingMessage, activeTabDomain,
          cookieStats, cookieHistory, storedHistory, permissions, settings, lastOp,
          unblocked, request, sightingTask, blockTask, overlap, probe,
          cookieExplanations>>

\* no query in flight, no handler suspended
NoRequest == [type |-> "none", state |-> "none"]
Idle == [pc |-> "idle"]
NoOverlap == [state |-> "none"]
\* no call yet
NoProbe == [op |-> "none"]

NoEntry == [status |-> "absent"]
NoPermission == [action |-> "absent"]

permissionActions == {"allow", "block", "custom"}

(***************************************************************************)
(* Risk score.                                                             *)
(***************************************************************************)
\* a scorer that counts at most two categories and one tracker pattern less
\* for every category
calculateRiskScoreOffset(cookie, potentialData, domain, t) ==
    LET trackers == TrackerTable[cookie]
        types == Cardinality(potentialData)
    IN  types
        + (IF trackers > types THEN trackers - types ELSE 0)
        - (IF types > 2 THEN 2 ELSE 0)
        + (IF domain # <<>> /\ ~SameDomainTable[cookie.domain][domain]
           THEN ThirdPartyBonus ELSE 0)
        + (IF cookie.expirationDate # 0
              /\ cookie.expirationDate > (t \div MsPerSecond) + OneYear
           THEN 1 ELSE 0)
        + (IF ~cookie.secure /\ cookie.domain # <<>>
              /\ ~startsWith(cookie.domain, <<"h","t","t","p">>)
           THEN 1 ELSE 0)

calculateRiskScore(cookie, potentialData, domain, t) ==
    Cardinality(potentialData)
    + TrackerTable[cookie]
    + (IF domain # <<>> /\ ~SameDomainTable[cookie.domain][domain]
       THEN ThirdPartyBonus ELSE 0)
    \* expirationDate > Date.now() / 1000 + 31536000, expirationDate an integer
    + (IF cookie.expirationDate # 0
          /\ cookie.expirationDate > (t \div MsPerSecond) + OneYear
       THEN 1 ELSE 0)
    + (IF ~cookie.secure /\ cookie.domain # <<>>
          /\ ~startsWith(cookie.domain, <<"h","t","t","p">>)
       THEN 1 ELSE 0)

(***************************************************************************)
(* History ledger.                                                         *)
(***************************************************************************)
\* a sighting that stamps firstSeen anew every time
recordSightingStampsFirstSeen(history, cookie, potentialData, riskScore, t) ==
    [history EXCEPT ![KeyTable[cookie]] =
        [status |-> "active", cookie |-> cookie, potentialData |-> potentialData,
         riskScore |-> riskScore, firstSeen |-> t, lastSeen |-> t,
         blockedAt |-> Unset, removedAt |-> Unset, autoBlocked |-> FALSE]]

\* cookieHistory.set(cookieKey, {...cookie, potentialData, riskScore, firstSeen, lastSeen, status})
recordSighting(history, cookie, potentialData, riskScore, t) ==
    LET cookieKey == KeyTable[cookie]
    IN  [history EXCEPT ![cookieKey] =
            [status |-> "active",
             cookie |-> cookie,
             potentialData |-> potentialData,
             riskScore |-> riskScore,
             firstSeen |-> IF history[cookieKey] # NoEntry
                           THEN history[cookieKey].firstSeen ELSE t,
             lastSeen |-> t,
             blockedAt |-> Unset,
             removedAt |-> Unset,
             autoBlocked |-> FALSE]]

\* historyEntry.status = 'blocked'; historyEntry.blockedAt = Date.now()
markBlocked(history, cookieKey, auto, t) ==
    IF history[cookieKey] = NoEntry THEN history
    ELSE [history EXCEPT ![cookieKey].status = "blocked",
                         ![cookieKey].blockedAt = {t},
                         ![cookieKey].autoBlocked = auto \/ @]

\* a removed branch that does not look at the entry's status
recordRemovalOfAnyStatus(history, cookieKey, t) ==
    IF history[cookieKey] # NoEntry
    THEN [history EXCEPT ![cookieKey].status = "removed",
                         ![cookieKey].removedAt = {t}]
    ELSE history

\* the removed branch of the cookie-changed listener
recordRemoval(history, cookieKey, t) ==
    IF history[cookieKey] # NoEntry /\ history[cookieKey].status = "active"
    THEN [history EXCEPT ![cookieKey].status = "removed",
                         ![cookieKey].removedAt = {t}]
    ELSE history

(***************************************************************************)
(* Permission store.                                                       *)
(***************************************************************************)
\* a blocking test that forgets the custom choice with nothing allowed
isBlockingOnlyOnBlock(action, allowedDataTypes) == action = "block"

\* const isBlocking = action === 'block' || (action === 'custom' && allowedDataTypes.length === 0)
isBlocking(action, allowedDataTypes) ==
    action = "block" \/ (action = "custom" /\ allowedDataTypes = {})

shouldBlockCookie(perms, cookie) ==
    LET permission == perms[KeyTable[cookie]]
    IN  IF permission # NoPermission
        THEN permission.action = "block"
             \/ (permission.action = "custom" /\ permission.allowedDataTypes = {})
        ELSE FALSE



(***************************************************************************)
(* Aggregate stats.                                                        *)
(***************************************************************************)
\* permission.action === 'allow' || (action === 'custom' && allowedDataTypes.length > 0)
countsAsAllowed(permission) ==
    /\ permission # NoPermission
    /\ \/ permission.action = "allow"
       \/ permission.action = "custom" /\ permission.allowedDataTypes # {}

\* the keys of the history entries the second loop of updateCookieStats visits
relatedHistoryKeys(history, hostname) ==
    {k \in AllKeys : history[k] # NoEntry
                     /\ RelatedTable[history[k].cookie.domain][hostname]}

\* the keys the second loop counts as blocked
blockedHistoryKeys(history, perms, hostname) ==
    {k \in relatedHistoryKeys(history, hostname) :
        perms[k] # NoPermission /\ perms[k].blocked}

\* updateCookieStats(url): the stats it returns and the ledger it leaves in memory
updateCookieStats(url, store, history, perms, domain, t) ==
    LET cookies == getAll(store, url)
        liveKeys == {KeyTable[cookies[i]] : i \in 1..Len(cookies)}
        suspiciousLive ==
            {i \in 1..Len(cookies) :
                calculateRiskScore(cookies[i], PotentialDataTable[cookies[i]], domain, t)
                    >= SuspiciousThreshold}
        allowedLive ==
            {i \in 1..Len(cookies) : countsAsAllowed(perms[KeyTable[cookies[i]]])}
        related == relatedHistoryKeys(history, url.hostname)
        suspiciousHistory ==
            {k \in related \ liveKeys : history[k].riskScore >= SuspiciousThreshold}
        blockedKeys == blockedHistoryKeys(history, perms, url.hostname)
    IN  [stats |-> [total |-> Cardinality(liveKeys \cup related),
                    suspicious |-> Cardinality(suspiciousLive) + Cardinality(suspiciousHistory),
                    blocked |-> Cardinality(blockedKeys),
                    allowed |-> Cardinality(allowedLive)],
         history |-> [k \in AllKeys |->
                        IF k \in blockedKeys
                        THEN [history[k] EXCEPT !.status = "blocked"]
                        ELSE history[k]]]

(***************************************************************************)
(* Page scan.                                                              *)
(***************************************************************************)
\* the permission record the auto-block writes
autoBlockPermission(cookie) ==
    [action |-> "block", allowedDataTypes |-> {}, blocked |-> TRUE,
     cookieName |-> cookie.name, cookieDomain |-> cookie.domain, autoBlocked |-> TRUE]

\* one pass of the for loop of scanExistingCookies over cookies[i..]; st is
\* [store, queue, history, perms, thrown, seen, issued]; outcome[c] is what the
\* browser answers to the removal of c; seen collects the cookies sighted,
\* issued the cookies whose removal was asked for
RECURSIVE scanLoop(_, _, _, _, _, _, _)
scanLoop(cookies, i, st, autoBlock, domain, t, outcome) ==
    IF i > Len(cookies) THEN st
    ELSE
      LET cookie == cookies[i]
          potentialData == PotentialDataTable[cookie]
          riskScore == calculateRiskScore(cookie, potentialData, domain, t)
          cookieKey == KeyTable[cookie]
          seen == recordSighting(st.history, cookie, potentialData, riskScore, t)
      IN  IF autoBlock /\ riskScore >= AutoBlockThreshold
          THEN LET marked == markBlocked(seen, cookieKey, TRUE, t)
                   rem == cookiesRemove(st.store, st.queue, getCookieUrl(cookie),
                                        cookie.name, outcome[cookie])
               IN  IF outcome[cookie] = "rejected"
                   THEN [st EXCEPT !.history = marked, !.thrown = TRUE,
                                   !.seen = @ \cup {cookie},
                                   !.issued = @ \cup {cookie}]
                   ELSE scanLoop(cookies, i + 1,
                                 [st EXCEPT !.history = marked,
                                            !.seen = @ \cup {cookie},
                                            !.issued = @ \cup {cookie},
                                            !.store = rem.store,
                                            !.queue = rem.queue,
                                            !.perms = [@ EXCEPT ![cookieKey] =
                                                          autoBlockPermission(cookie)]],
                                 autoBlock, domain, t, outcome)
          ELSE scanLoop(cookies, i + 1,
                        [st EXCEPT !.history = seen, !.seen = @ \cup {cookie}],
                        autoBlock, domain, t, outcome)

\* what the scan leaves once its loop is over:
\* [store, queue, history, stored, perms, seen, issued]
scanResult(st, stored) ==
    [store |-> st.store, queue |-> st.queue, history |-> st.history,
     perms |-> st.perms,
     \* saveCookieHistory() is skipped when the loop threw
     stored |-> IF st.thrown THEN stored ELSE st.history,
     seen |-> st.seen, issued |-> st.issued]

\* scanExistingCookies(url): the loop over chrome.cookies.getAll({ url }), then the save
scanExistingCookies(url, store, queue, history, stored, perms, autoBlock, domain, t, outcome) ==
    scanResult(scanLoop(getAll(store, url), 1,
                        [store |-> store, queue |-> queue, history |-> history,
                         perms |-> perms, thrown |-> FALSE, seen |-> {},
                         issued |-> {}],
                        autoBlock, domain, t, outcome),
               stored)


(***************************************************************************)
(* The merged view.                                                        *)
(***************************************************************************)
\* the value the merged view gives an entry that comes from the ledger
BlockedRemovedValue ==
    <<"[","B","L","O","C","K","E","D","/","R","E","M","O","V","E","D","]">>

riskLevelOf(riskScore) ==
    IF riskScore >= HighRisk THEN "high"
    ELSE IF riskScore >= MediumRisk THEN "medium"
    ELSE "low"

\* the entry getAllCookieData pushes for a live cookie
liveEntry(cookie, history, perms, domain, t) ==
    LET historyEntry == history[KeyTable[cookie]]
        potentialData == IF historyEntry # NoEntry THEN historyEntry.potentialData
                         ELSE PotentialDataTable[cookie]
        riskScore == IF historyEntry # NoEntry THEN historyEntry.riskScore
                     ELSE calculateRiskScore(cookie, potentialData, domain, t)
        permission == perms[KeyTable[cookie]]
    IN  [name |-> cookie.name, domain |-> cookie.domain, value |-> cookie.value,
         path |-> cookie.path, secure |-> cookie.secure,
         expirationDate |-> cookie.expirationDate,
         potentialData |-> potentialData,
         riskLevel |-> riskLevelOf(riskScore), riskScore |-> riskScore,
         permission |-> permission,
         status |-> IF permission # NoPermission /\ permission.blocked
                    THEN "blocked" ELSE "active",
         firstSeen |-> IF historyEntry # NoEntry THEN historyEntry.firstSeen ELSE t,
         lastSeen |-> IF historyEntry # NoEntry THEN historyEntry.lastSeen ELSE t,
         blockedAt |-> Unset, autoBlocked |-> FALSE]

\* the entry getAllCookieData pushes for a ledger entry that is not live
historyOnlyEntry(historyEntry, perms) ==
    [name |-> historyEntry.cookie.name, domain |-> historyEntry.cookie.domain,
     value |-> BlockedRemovedValue,
     path |-> historyEntry.cookie.path, secure |-> historyEntry.cookie.secure,
     expirationDate |-> historyEntry.cookie.expirationDate,
     potentialData |-> historyEntry.potentialData,
     riskLevel |-> riskLevelOf(historyEntry.riskScore),
     riskScore |-> historyEntry.riskScore,
     permission |-> perms[KeyTable[historyEntry.cookie]],
     status |-> historyEntry.status,
     firstSeen |-> historyEntry.firstSeen, lastSeen |-> historyEntry.lastSeen,
     blockedAt |-> historyEntry.blockedAt, autoBlocked |-> historyEntry.autoBlocked]

\* a set of keys as a list, in the order of the cookie list
RECURSIVE keyListOf(_)
keyListOf(K) ==
    IF K = {} THEN <<>>
    ELSE LET k == CHOOSE k \in K : \A j \in K : KeyIndexTable[k] <= KeyIndexTable[j]
         IN  <<k>> \o keyListOf(K \ {k})

\* getAllCookieData(): the cookies list it answers for the tab's url
getAllCookieData(url, store, history, perms, domain, t) ==
    LET cookies == getAll(store, url)
        processedCookies == {KeyTable[cookies[i]] : i \in 1..Len(cookies)}
        rest == keyListOf(relatedHistoryKeys(history, url.hostname) \ processedCookies)
    IN  [i \in 1..Len(cookies) |-> liveEntry(cookies[i], history, perms, domain, t)]
        \o [i \in 1..Len(rest) |-> historyOnlyEntry(history[rest[i]], perms)]

(***************************************************************************)
(* The popup's view of an entry (createCookieElement).                     *)
(***************************************************************************)
isBlockedByPermission(entry) ==
    entry.permission # NoPermission /\ entry.permission.blocked
isCookieActive(entry) ==
    entry.status = "active" /\ entry.value # BlockedRemovedValue
isBlocked(entry) == isBlockedByPermission(entry) /\ ~isCookieActive(entry)
\* an unblocked-pending test that forgets the entries observed as removed
isUnblockedButNotSetOrRemoved(entry) ==
    ~isBlockedByPermission(entry) /\ ~isCookieActive(entry)
isUnblockedButNotSet(entry) ==
    ~isBlockedByPermission(entry) /\ ~isCookieActive(entry) /\ entry.status # "removed"
isRemoved(entry) == entry.status = "removed" /\ ~isBlockedByPermission(entry)

\* the list the popup shows for the active tab
popupList ==
    IF activeTab = NoTab THEN <<>>
    ELSE getAllCookieData(activeTab.url, cookieStore, cookieHistory, permissions,
                          activeTabDomain, now)
popupEntries == {popupList[i] : i \in 1..Len(popupList)}

\* the cookie object of a popup entry, as the handlers read it
cookieOfEntry(entry) ==
    CHOOSE c \in CookieUniverse :
        /\ c.name = entry.name /\ c.domain = entry.domain
        /\ c.path = entry.path /\ c.secure = entry.secure


(***************************************************************************)
(* Bookkeeping of the last operation, read by the properties only.         *)
(***************************************************************************)
\* type: the listener that ran, "other" for every operation the properties do
\* not tell apart; seen: the cookies it sighted; issued: the cookies it asked
\* the browser to remove
Op(type, seen, issued) == [type |-> type, seen |-> seen, issued |-> issued]

sightingTypes == {"cookieSet", "tabUpdated", "navCompleted"}

(***************************************************************************)
(* Initial state: the extension has just been installed; the browser may   *)
(* already hold cookies.                                                   *)
(***************************************************************************)
Init ==
    /\ scenario \in Scenarios
    /\ now = 1
    /\ activeTab = scenario.tab
    /\ cookieStore \in SUBSET scenario.cookies
    /\ eventQueue = <<>>
    /\ pendingMessage = {}
    /\ activeTabDomain = <<>>
    /\ cookieStats = [total |-> 0, suspicious |-> 0, blocked |-> 0, allowed |-> 0]
    /\ cookieHistory = [k \in AllKeys |-> NoEntry]
    /\ storedHistory = [k \in AllKeys |-> NoEntry]
    /\ permissions = [k \in AllKeys |-> NoPermission]
    /\ settings = [autoBlockHighRisk |-> FALSE]
    /\ lastOp = Op("other", {}, {})
    /\ unblocked = {}
    /\ request = NoRequest
    /\ sightingTask = Idle
    /\ blockTask = Idle
    /\ overlap = NoOverlap
    /\ probe = NoProbe
    /\ cookieExplanations = [k \in ExplainKeys |-> NoText]

(***************************************************************************)
(* The world outside the extension.                                        *)
(***************************************************************************)
\* time passes
Tick ==
    /\ now < MaxTime
    /\ now' = now + 1
    /\ UNCHANGED <<cookieExplanations, probe, asyncVars, scenario, activeTab, cookieStore, eventQueue, pendingMessage,
                   activeTabDomain, cookieStats, cookieHistory, storedHistory,
                   permissions, settings, lastOp, unblocked>>

\* the page sets a cookie
PageSetsCookie(c) ==
    /\ c \notin cookieStore
    /\ Len(eventQueue) < MaxQueue
    /\ cookieStore' = cookieStore \cup {c}
    /\ eventQueue' = Append(eventQueue, [removed |-> FALSE, cookie |-> c])
    /\ lastOp' = Op("other", {}, {})
    /\ UNCHANGED <<cookieExplanations, probe, asyncVars, scenario, now, activeTab, pendingMessage, activeTabDomain, cookieStats,
                   cookieHistory, storedHistory, permissions, settings, unblocked>>

\* a cookie expires or the page deletes it
CookieExpires(c) ==
    /\ c \in cookieStore
    /\ Len(eventQueue) < MaxQueue
    /\ cookieStore' = cookieStore \ {c}
    /\ eventQueue' = Append(eventQueue, [removed |-> TRUE, cookie |-> c])
    /\ lastOp' = Op("other", {}, {})
    /\ UNCHANGED <<cookieExplanations, probe, asyncVars, scenario, now, activeTab, pendingMessage, activeTabDomain, cookieStats,
                   cookieHistory, storedHistory, permissions, settings, unblocked>>


(***************************************************************************)
(* The background's listeners.                                             *)
(***************************************************************************)
\* one answer of the browser for every removal a handler issues
OutcomeMaps == {[c \in CookieUniverse |-> o] : o \in RemoveOutcomes}

\* chrome.tabs.onActivated
TabActivated(tab) ==
    /\ activeTab' = tab
    /\ IF tab # NoTab /\ isHttpUrl(tab.url)
       THEN LET r == updateCookieStats(tab.url, cookieStore, cookieHistory, permissions,
                                       tab.url.hostname, now)
            IN  /\ activeTabDomain' = tab.url.hostname
                /\ cookieHistory' = r.history
                /\ cookieStats' = r.stats
       ELSE UNCHANGED <<activeTabDomain, cookieHistory, cookieStats>>
    /\ lastOp' = Op("other", {}, {})
    /\ unblocked' = {}
    /\ UNCHANGED <<cookieExplanations, probe, asyncVars, scenario, now, cookieStore, eventQueue, pendingMessage, storedHistory,
                   permissions, settings>>

\* chrome.tabs.onUpdated with status 'complete': scan, then stats
TabUpdated(tab, outcome) ==
    /\ isHttpUrl(tab.url)
    /\ Len(eventQueue) < MaxQueue
    /\ LET domain == tab.url.hostname
           sc == scanExistingCookies(tab.url, cookieStore, eventQueue, cookieHistory,
                                     storedHistory, permissions,
                                     settings.autoBlockHighRisk, domain, now, outcome)
           r == updateCookieStats(tab.url, sc.store, sc.history, sc.perms, domain, now)
       IN  /\ activeTabDomain' = domain
           /\ cookieStore' = sc.store
           /\ eventQueue' = sc.queue
           /\ permissions' = sc.perms
           /\ storedHistory' = sc.stored
           /\ cookieHistory' = r.history
           /\ cookieStats' = r.stats
           /\ lastOp' = Op("tabUpdated", sc.seen, sc.issued)
    /\ unblocked' = {}
    /\ UNCHANGED <<cookieExplanations, probe, asyncVars, scenario, now, activeTab, pendingMessage, settings>>

\* chrome.webNavigation.onCompleted: scan only
NavCompleted(url, outcome) ==
    /\ isHttpUrl(url)
    /\ Len(eventQueue) < MaxQueue
    /\ LET sc == scanExistingCookies(url, cookieStore, eventQueue, cookieHistory,
                                     storedHistory, permissions,
                                     settings.autoBlockHighRisk, activeTabDomain, now,
                                     outcome)
       IN  /\ cookieStore' = sc.store
           /\ eventQueue' = sc.queue
           /\ permissions' = sc.perms
           /\ storedHistory' = sc.stored
           /\ cookieHistory' = sc.history
           /\ lastOp' = Op("navCompleted", sc.seen, sc.issued)
    /\ unblocked' = {}
    /\ UNCHANGED <<cookieExplanations, probe, asyncVars, scenario, now, activeTab, pendingMessage, activeTabDomain, cookieStats, settings>>

\* chrome.cookies.onChanged, the cookie was set
CookieSet(o) ==
    /\ eventQueue # <<>>
    /\ ~Head(eventQueue).removed
    /\ LET cookie == Head(eventQueue).cookie
           cookieKey == KeyTable[cookie]
           potentialData == PotentialDataTable[cookie]
           riskScore == calculateRiskScore(cookie, potentialData, activeTabDomain, now)
           seen == recordSighting(cookieHistory, cookie, potentialData, riskScore, now)
           shouldBlock == shouldBlockCookie(permissions, cookie)
           marked == IF shouldBlock THEN markBlocked(seen, cookieKey, FALSE, now) ELSE seen
           rem == IF shouldBlock
                  THEN cookiesRemove(cookieStore, Tail(eventQueue), getCookieUrl(cookie),
                                     cookie.name, o)
                  ELSE [store |-> cookieStore, queue |-> Tail(eventQueue)]
           thrown == shouldBlock /\ o = "rejected"
       IN  /\ cookieStore' = rem.store
           /\ eventQueue' = rem.queue
           /\ storedHistory' = marked
           /\ IF ~thrown /\ activeTab # NoTab
              THEN LET r == updateCookieStats(activeTab.url, rem.store, marked,
                                              permissions, activeTabDomain, now)
                   IN  cookieHistory' = r.history /\ cookieStats' = r.stats
              ELSE cookieHistory' = marked /\ UNCHANGED cookieStats
           /\ lastOp' = Op("cookieSet", {cookie}, IF shouldBlock THEN {cookie} ELSE {})
    /\ unblocked' = {}
    /\ UNCHANGED <<cookieExplanations, probe, asyncVars, scenario, now, activeTab, pendingMessage, activeTabDomain, permissions, settings>>

\* chrome.cookies.onChanged, the cookie was removed
CookieRemoved ==
    /\ eventQueue # <<>>
    /\ Head(eventQueue).removed
    /\ LET cookieKey == KeyTable[Head(eventQueue).cookie]
           removed == recordRemoval(cookieHistory, cookieKey, now)
       IN  /\ eventQueue' = Tail(eventQueue)
           /\ storedHistory' = IF removed # cookieHistory THEN removed ELSE storedHistory
           /\ IF activeTab # NoTab
              THEN LET r == updateCookieStats(activeTab.url, cookieStore, removed,
                                              permissions, activeTabDomain, now)
                   IN  cookieHistory' = r.history /\ cookieStats' = r.stats
              ELSE cookieHistory' = removed /\ UNCHANGED cookieStats
           /\ lastOp' = Op("cookieRemoved", {}, {})
    /\ UNCHANGED <<cookieExplanations, probe, asyncVars, scenario, now, activeTab, cookieStore, pendingMessage, activeTabDomain,
                   permissions, settings, unblocked>>


(***************************************************************************)
(* The popup.                                                              *)
(***************************************************************************)
\* the data types handleCookieAction sends for an action on an entry
dataTypesToAllow(entry, action) ==
    CASE action = "allow" -> {entry.potentialData}
      [] action = "block" -> {{}}
      [] action = "custom" -> {{}, entry.potentialData}

\* handleCookieAction: Allow All, Block or Custom on an entry shown as active.
\* The popup removes the cookie itself when the choice blocks, then sends
\* UPDATE_COOKIE_PERMISSIONS.
PopupActs(entry, action, allowed, o) ==
    /\ pendingMessage = {}
    /\ Len(eventQueue) < MaxQueue
    /\ entry \in popupEntries
    /\ isCookieActive(entry)
    /\ action = "custom" => entry.potentialData # {}
    /\ LET cookie == cookieOfEntry(entry)
           rem == IF action = "block" \/ (action = "custom" /\ allowed = {})
                  THEN cookiesRemove(cookieStore, eventQueue, getCookieUrl(cookie),
                                     cookie.name, o)
                  ELSE [store |-> cookieStore, queue |-> eventQueue]
       IN  /\ cookieStore' = rem.store
           /\ eventQueue' = rem.queue
           /\ pendingMessage' = {[cookie |-> cookie, allowedDataTypes |-> allowed,
                                  action |-> action]}
           /\ lastOp' = Op("other", {}, {})
    /\ unblocked' = {}
    /\ UNCHANGED <<cookieExplanations, probe, scenario, now, activeTab, activeTabDomain, cookieStats, cookieHistory,
                   storedHistory, permissions, settings>>

\* handleCookieAction while no handler of the background is suspended
PopupAction(entry, action, allowed, o) ==
    /\ PopupActs(entry, action, allowed, o)
    /\ UNCHANGED asyncVars

\* handleUnblock: the Unblock button of an entry shown as blocked
Unblock(entry) ==
    /\ entry \in popupEntries
    /\ isBlocked(entry)
    /\ LET cookieKey == cookieKeyOf(entry)
           before == updateCookieStats(activeTab.url, cookieStore, cookieHistory,
                                       permissions, activeTabDomain, now).stats
       IN  /\ permissions' = [permissions EXCEPT ![cookieKey] = NoPermission]
           /\ unblocked' = {[key |-> cookieKey, blocked |-> before.blocked]}
           /\ lastOp' = Op("other", {}, {})
    /\ UNCHANGED <<cookieExplanations, probe, asyncVars, scenario, now, activeTab, cookieStore, eventQueue, pendingMessage,
                   activeTabDomain, cookieStats, cookieHistory, storedHistory, settings>>

\* saveSettings
SaveSettings(autoBlock) ==
    /\ settings.autoBlockHighRisk # autoBlock
    /\ settings' = [settings EXCEPT !.autoBlockHighRisk = autoBlock]
    /\ lastOp' = Op("other", {}, {})
    /\ unblocked' = {}
    /\ UNCHANGED <<cookieExplanations, probe, asyncVars, scenario, now, activeTab, cookieStore, eventQueue, pendingMessage,
                   activeTabDomain, cookieStats, cookieHistory, storedHistory, permissions>>

(***************************************************************************)
(* The background's message handlers.                                      *)
(***************************************************************************)
\* the permission record handleCookiePermissionsUpdate writes
userPermission(cookie, allowedDataTypes, action) ==
    [action |-> action, allowedDataTypes |-> allowedDataTypes,
     blocked |-> isBlocking(action, allowedDataTypes),
     cookieName |-> cookie.name, cookieDomain |-> cookie.domain, autoBlocked |-> FALSE]

\* the ledger after the history step of handleCookiePermissionsUpdate
applyUserAction(history, cookieKey, blocking, t) ==
    IF history[cookieKey] = NoEntry THEN history
    ELSE [history EXCEPT ![cookieKey].status = IF blocking THEN "blocked" ELSE "active",
                         ![cookieKey].blockedAt = IF blocking THEN {t} ELSE @]

\* UPDATE_COOKIE_PERMISSIONS: handleCookiePermissionsUpdate, then { success: true }
UpdateCookiePermissions(o) ==
    /\ pendingMessage # {}
    /\ LET message == CHOOSE m \in pendingMessage : TRUE
           cookie == message.cookie
           cookieKey == KeyTable[cookie]
           blocking == isBlocking(message.action, message.allowedDataTypes)
           perms == [permissions EXCEPT ![cookieKey] =
                        userPermission(cookie, message.allowedDataTypes, message.action)]
           history == applyUserAction(cookieHistory, cookieKey, blocking, now)
           rem == IF blocking
                  THEN cookiesRemove(cookieStore, eventQueue, getCookieUrl(cookie),
                                     cookie.name, o)
                  ELSE [store |-> cookieStore, queue |-> eventQueue]
       IN  /\ pendingMessage' = {}
           /\ permissions' = perms
           /\ storedHistory' = IF cookieHistory[cookieKey] # NoEntry
                               THEN history ELSE storedHistory
           /\ cookieStore' = rem.store
           /\ eventQueue' = rem.queue
           /\ IF activeTab # NoTab
              THEN LET r == updateCookieStats(activeTab.url, rem.store, history, perms,
                                              activeTabDomain, now)
                   IN  cookieHistory' = r.history /\ cookieStats' = r.stats
              ELSE cookieHistory' = history /\ UNCHANGED cookieStats
           /\ lastOp' = Op("other", {}, {})
    /\ unblocked' = {}
    /\ UNCHANGED <<cookieExplanations, probe, asyncVars, scenario, now, activeTab, activeTabDomain, settings>>

\* GET_COOKIE_STATS: answered only when the active tab has a url
GetCookieStats ==
    /\ IF activeTab # NoTab
       THEN LET r == updateCookieStats(activeTab.url, cookieStore, cookieHistory,
                                       permissions, activeTabDomain, now)
            IN  /\ cookieHistory' = r.history
                /\ cookieStats' = r.stats
                /\ lastOp' = Op("other", {}, {})
       ELSE /\ UNCHANGED <<cookieHistory, cookieStats>>
            /\ lastOp' = Op("other", {}, {})
    /\ UNCHANGED <<cookieExplanations, probe, asyncVars, scenario, now, activeTab, cookieStore, eventQueue, pendingMessage,
                   activeTabDomain, storedHistory, permissions, settings, unblocked>>

\* GET_ALL_COOKIE_DATA: reads only; its answer is getAllCookieData of the state
GetAllCookieData ==
    /\ lastOp' = Op("other", {}, {})
    /\ UNCHANGED <<cookieExplanations, probe, asyncVars, scenario, now, activeTab, cookieStore, eventQueue, pendingMessage,
                   activeTabDomain, cookieStats, cookieHistory, storedHistory,
                   permissions, settings, unblocked>>

Next ==
    \/ Tick
    \/ \E c \in scenario.cookies : PageSetsCookie(c)
    \/ \E c \in scenario.cookies : CookieExpires(c)
    \/ TabActivated(scenario.tab)
    \/ \E url \in scenario.urls, outcome \in OutcomeMaps :
          TabUpdated([url |-> url], outcome)
    \/ \E url \in scenario.urls, outcome \in OutcomeMaps : NavCompleted(url, outcome)
    \/ \E o \in RemoveOutcomes : CookieSet(o)
    \/ CookieRemoved
    \/ \E entry \in popupEntries, action \in permissionActions, o \in RemoveOutcomes :
          \E allowed \in dataTypesToAllow(entry, action) :
            PopupAction(entry, action, allowed, o)
    \/ \E entry \in popupEntries : Unblock(entry)
    \/ \E autoBlock \in scenario.autoBlock : SaveSettings(autoBlock)
    \/ \E o \in RemoveOutcomes : UpdateCookiePermissions(o)
    \/ GetCookieStats
    \/ GetAllCookieData

Spec == Init /\ [][Next]_vars

(***************************************************************************)
(* Properties.                                                             *)
(***************************************************************************)
\* the keys of the cookies of the run
scenarioKeys == {KeyTable[c] : c \in scenario.cookies}

\* C1: when a ledger entry has status 'blocked' and a cookie-removed event
\* arrives for its key, the entry's status stays 'blocked' and the event does
\* not set removedAt.
C1_BlockedEntryKeepsStatusOnRemoval ==
    [][CookieRemoved =>
        LET cookieKey == KeyTable[Head(eventQueue).cookie]
        IN  (cookieHistory[cookieKey] # NoEntry
             /\ cookieHistory[cookieKey].status = "blocked")
            => /\ cookieHistory'[cookieKey].status = "blocked"
               /\ cookieHistory'[cookieKey].removedAt = cookieHistory[cookieKey].removedAt]_vars

\* The removed event of a run's cookie has just been handled and the entry of
\* its key is 'blocked' with no removedAt: the entry was 'blocked' when the
\* event arrived, since the event stamps removedAt on an 'active' entry and a
\* 'removed' entry carries one already.
C1_Witness ==
    /\ lastOp.type = "cookieRemoved"
    /\ \E k \in scenarioKeys :
          /\ cookieHistory[k] # NoEntry
          /\ cookieHistory[k].status = "blocked"
          /\ cookieHistory[k].blockedAt # Unset
          /\ cookieHistory[k].removedAt = Unset

\* C5: in every permission record, written by a user update or by the
\* auto-block, blocked is true exactly when action is 'block' or action is
\* 'custom' with no allowed data type.
C5_BlockedFlagMatchesAction ==
    \A k \in AllKeys :
        permissions[k] # NoPermission
        => (permissions[k].blocked
            <=> (permissions[k].action = "block"
                 \/ (permissions[k].action = "custom"
                     /\ permissions[k].allowedDataTypes = {})))

\* a record of the custom choice with nothing allowed is stored as blocking
C5_Witness ==
    \E k \in AllKeys :
        /\ permissions[k] # NoPermission
        /\ permissions[k].action = "custom"
        /\ permissions[k].allowedDataTypes = {}
        /\ permissions[k].blocked

\* C6: once a ledger entry exists its firstSeen never changes, whatever the
\* operation: cookie-set event, scan, removal event, permission update, stats.
C6_FirstSeenNeverChanges ==
    [][\A k \in AllKeys :
          (cookieHistory[k] # NoEntry /\ cookieHistory'[k] # NoEntry)
          => cookieHistory'[k].firstSeen = cookieHistory[k].firstSeen]_vars

\* a sighting has just been processed for an entry first seen at an earlier time
C6_Witness ==
    /\ lastOp.type \in sightingTypes
    /\ \E c \in lastOp.seen :
          /\ cookieHistory[KeyTable[c]] # NoEntry
          /\ cookieHistory[KeyTable[c]].lastSeen = now
          /\ cookieHistory[KeyTable[c]].firstSeen < now


\* the stats a GET_COOKIE_STATS request would be answered with
answeredStats(store, history, perms) ==
    updateCookieStats(activeTab.url, store, history, perms, activeTabDomain, now).stats

\* the UPDATE_COOKIE_PERMISSIONS message in flight
message == CHOOSE m \in pendingMessage : TRUE

\* C2: after an UPDATE_COOKIE_PERMISSIONS request with action 'block' for a
\* live cookie has been answered, the permission record of the key is stored
\* with blocked = true, the cookie is not in the cookie store, and the ledger
\* entry of the key has status 'blocked' with blockedAt set.
C2_BlockRequestBlocksCookie ==
    [][\A o \in RemoveOutcomes :
          (pendingMessage # {} /\ UpdateCookiePermissions(o))
          => (message.action = "block"
              => LET cookieKey == KeyTable[message.cookie]
                 IN  /\ permissions'[cookieKey] # NoPermission
                     /\ permissions'[cookieKey].blocked
                     /\ message.cookie \notin cookieStore'
                     /\ cookieHistory'[cookieKey] # NoEntry
                     /\ cookieHistory'[cookieKey].status = "blocked"
                     /\ cookieHistory'[cookieKey].blockedAt # Unset)]_vars

\* C3: blocking a cookie of the active site whose key had no blocking
\* permission makes the 'blocked' count of the next GET_COOKIE_STATS exactly
\* one greater than it was before.
C3_BlockRaisesBlockedCountByOne ==
    [][\A o \in RemoveOutcomes :
          (pendingMessage # {} /\ UpdateCookiePermissions(o))
          => LET cookieKey == KeyTable[message.cookie]
             IN  (/\ activeTab # NoTab
                  /\ isBlocking(message.action, message.allowedDataTypes)
                  /\ ~(permissions[cookieKey] # NoPermission
                       /\ permissions[cookieKey].blocked)
                  /\ RelatedTable[message.cookie.domain][activeTab.url.hostname])
                 => answeredStats(cookieStore', cookieHistory', permissions').blocked
                    = answeredStats(cookieStore, cookieHistory, permissions).blocked + 1]_vars

\* a step that sights cookies: a cookie-set event or a scan
SightingStep ==
    \/ \E o \in RemoveOutcomes : CookieSet(o)
    \/ \E url \in scenario.urls, outcome \in OutcomeMaps :
          TabUpdated([url |-> url], outcome) \/ NavCompleted(url, outcome)

\* C4: after a key is unblocked, the next sighting of its cookie (set event
\* or scan) leaves the entry with status 'active', and the 'blocked' count is
\* one lower than it was before the unblock.
C4_UnblockedCookieComesBackActive ==
    [][\A u \in unblocked :
          (/\ SightingStep
           /\ activeTab # NoTab
           /\ \E c \in lastOp'.seen : KeyTable[c] = u.key)
          => /\ cookieHistory'[u.key].status = "active"
             /\ answeredStats(cookieStore', cookieHistory', permissions').blocked
                = u.blocked - 1]_vars

\* C7: processing the same sighting (a cookie-set event or a scan of the same
\* cookies) twice in a row, with the same cookie data and no other event in
\* between, leaves firstSeen and status of the entries as the first
\* processing left them; only lastSeen may differ.
C7_SightingTwiceChangesNothing ==
    [][(/\ SightingStep
        /\ lastOp.type \in sightingTypes
        /\ (lastOp.type = "cookieSet" <=> lastOp'.type = "cookieSet")
        /\ lastOp.seen # {}
        /\ lastOp'.seen = lastOp.seen)
       => \A c \in lastOp.seen :
            /\ cookieHistory'[KeyTable[c]].firstSeen = cookieHistory[KeyTable[c]].firstSeen
            /\ cookieHistory'[KeyTable[c]].status = cookieHistory[KeyTable[c]].status]_vars

\* C8: the cookies list of GET_ALL_COOKIE_DATA holds every (name, domain) key
\* exactly once, with the live data when a cookie of the key is live.
C8_EachKeyListedOnce ==
    activeTab # NoTab
    => /\ \A i, j \in 1..Len(popupList) :
            cookieKeyOf(popupList[i]) = cookieKeyOf(popupList[j]) => i = j
       /\ \A c \in cookieStore :
            MatchTable[c][activeTab.url]
            => \E e \in popupEntries :
                  cookieKeyOf(e) = KeyTable[c] /\ e.value # BlockedRemovedValue

\* C9: in the stats updateCookieStats computes, suspicious, blocked and
\* allowed are each at most total, also when live cookies share a key.
C9_CountsWithinTotal ==
    activeTab # NoTab
    => LET stats == answeredStats(cookieStore, cookieHistory, permissions)
       IN  /\ stats.suspicious <= stats.total
           /\ stats.blocked <= stats.total
           /\ stats.allowed <= stats.total

\* C10: total is the number of distinct keys among the live cookies of the
\* site, the ledger entries related to the site and the blocking permission
\* records.
C10_TotalCountsDistinctKeys ==
    activeTab # NoTab
    => LET cookies == getAll(cookieStore, activeTab.url)
           liveKeys == {KeyTable[cookies[i]] : i \in 1..Len(cookies)}
           blockingKeys ==
               {k \in AllKeys :
                   /\ permissions[k] # NoPermission
                   /\ permissions[k].blocked
                   /\ RelatedTable[permissions[k].cookieDomain][activeTab.url.hostname]}
       IN  answeredStats(cookieStore, cookieHistory, permissions).total
           = Cardinality(liveKeys
                         \cup relatedHistoryKeys(cookieHistory, activeTab.url.hostname)
                         \cup blockingKeys)

\* the keys with a blocking permission record of a cookie domain related to the site
blockingPermissionKeys(perms, hostname) ==
    {k \in AllKeys : /\ perms[k] # NoPermission
                     /\ perms[k].blocked
                     /\ RelatedTable[perms[k].cookieDomain][hostname]}

\* C11: the 'blocked' count GET_COOKIE_STATS answers is the number of the
\* site's keys that have a blocking permission record, with or without a
\* ledger entry for the key.
C11_BlockedCountsBlockingPermissions ==
    activeTab # NoTab
    => answeredStats(cookieStore, cookieHistory, permissions).blocked
       = Cardinality(blockingPermissionKeys(permissions, activeTab.url.hostname))

\* what getAllCookieData returns for a tab with a url: the merged list and
\* the stats the background holds
allCookieDataResponse == [cookies |-> popupList, stats |-> cookieStats]

\* C12: in every GET_ALL_COOKIE_DATA response the stats field aggregates the
\* cookies list of the same response: total is the number of entries and
\* suspicious the number of entries with riskScore >= 3.
C12_StatsAggregateTheList ==
    activeTab # NoTab
    => LET response == allCookieDataResponse
       IN  /\ response.stats.total = Len(response.cookies)
           /\ response.stats.suspicious
              = Cardinality({i \in 1..Len(response.cookies) :
                                response.cookies[i].riskScore >= SuspiciousThreshold})

\* the display states createCookieElement finds an entry in
displayStates(entry) ==
    {s \in {"active", "blocked", "unblocked-pending", "removed"} :
        CASE s = "active" -> isCookieActive(entry)
          [] s = "blocked" -> isBlocked(entry)
          [] s = "unblocked-pending" -> isUnblockedButNotSet(entry)
          [] s = "removed" -> isRemoved(entry)}

\* C13: every entry of the merged view is in exactly one of the four display
\* states active, blocked, unblocked-pending, removed.
C13_ExactlyOneDisplayState ==
    \A entry \in popupEntries : Cardinality(displayStates(entry)) = 1

\* the list holds an entry that comes from the ledger with status 'blocked'
\* and whose key has no blocking permission any more: unblocked-pending
C13_Witness ==
    \E entry \in popupEntries :
        /\ entry.value = BlockedRemovedValue
        /\ entry.status = "blocked"
        /\ ~isBlockedByPermission(entry)
        /\ displayStates(entry) = {"unblocked-pending"}

\* C14: a cookie that is in the browser store while its key has a blocking
\* permission record is listed as active: status 'active', display state active.
C14_LiveCookieListedActive ==
    \A entry \in popupEntries :
        (entry.value # BlockedRemovedValue /\ isBlockedByPermission(entry))
        => /\ entry.status = "active"
           /\ displayStates(entry) = {"active"}

\* C16: whenever a cookie is sighted, by a cookie-set event or by a page scan,
\* while a blocking permission record exists for its key, the handler that
\* sights it asks the browser to remove it.
C16_SightingEnforcesBlock ==
    [][SightingStep
       => \A c \in lastOp'.seen :
            shouldBlockCookie(permissions, c) => c \in lastOp'.issued]_vars

\* the stats GET_COOKIE_STATS would answer in the state
statsNow == answeredStats(cookieStore, cookieHistory, permissions)

\* the sightings of the cookies are in the saved ledger
sightingsSaved(stored, cookies) ==
    \A c \in cookies : /\ stored[KeyTable[c]] # NoEntry
                       /\ stored[KeyTable[c]].lastSeen = now

\* C17: when the browser rejects the removal that enforces a block (a user
\* block, the enforcement on a cookie-set event, the auto-block of a scan),
\* the handler still does its remaining steps (the remaining cookies of the
\* scan, the save of the ledger, the stats update) and a blocking permission
\* record of the key is in the permission store afterwards.
C17_RemovalFailureIsNotFatal ==
    [][/\ (/\ pendingMessage # {}
           /\ isBlocking(message.action, message.allowedDataTypes)
           /\ UpdateCookiePermissions("rejected"))
          => /\ shouldBlockCookie(permissions', message.cookie)
             /\ activeTab # NoTab => cookieStats' = statsNow'
       /\ (CookieSet("rejected") /\ lastOp'.issued # {})
          => /\ \A c \in lastOp'.issued : shouldBlockCookie(permissions', c)
             /\ sightingsSaved(storedHistory', lastOp'.seen)
             /\ activeTab # NoTab => cookieStats' = statsNow'
       /\ \A url \in scenario.urls, outcome \in OutcomeMaps :
            (/\ TabUpdated([url |-> url], outcome) \/ NavCompleted(url, outcome)
             /\ \E c \in lastOp'.issued : outcome[c] = "rejected")
            => /\ \A c \in lastOp'.issued : shouldBlockCookie(permissions', c)
               /\ lastOp'.seen = {c \in cookieStore : MatchTable[c][url]}
               /\ sightingsSaved(storedHistory', lastOp'.seen)]_vars

\* a block the user has started in the popup and the background has not yet
\* handled
blockInProgress ==
    /\ pendingMessage # {}
    /\ isBlocking(message.action, message.allowedDataTypes)

\* C18: when a cookie is removed from the browser because of a blocking
\* decision (Block in the popup, enforcement on a cookie-set event, auto-block
\* of a scan), its ledger entry becomes 'blocked'; from the start of the block
\* to its end no step makes the entry 'removed' or sets its removedAt.
C18_BlockedRemovalIsNeverRemoved ==
    [][/\ blockInProgress
          => LET cookieKey == KeyTable[message.cookie]
             IN  (cookieHistory[cookieKey] # NoEntry /\ cookieHistory'[cookieKey] # NoEntry)
                 => /\ cookieHistory'[cookieKey].status = "removed"
                       => cookieHistory[cookieKey].status = "removed"
                    /\ cookieHistory'[cookieKey].removedAt
                       = cookieHistory[cookieKey].removedAt
                    /\ (\E o \in RemoveOutcomes : UpdateCookiePermissions(o))
                       => cookieHistory'[cookieKey].status = "blocked"
       /\ SightingStep
          => \A c \in lastOp'.issued :
                c \notin cookieStore'
                => /\ cookieHistory'[KeyTable[c]].status = "blocked"
                   /\ cookieHistory'[KeyTable[c]].removedAt = Unset]_vars

\* the blocking test of a stored permission record
blocksKey(perms, k) == perms[k] # NoPermission /\ perms[k].blocked

\* C20: a ledger entry with status 'blocked' stays 'blocked' as long as a
\* blocking permission record exists for its key: no cookie-set event, page
\* scan, removal event or stats computation leaves it 'active' or 'removed'.
C20_BlockedStaysBlocked ==
    [][(SightingStep \/ CookieRemoved \/ GetCookieStats \/ TabActivated(scenario.tab))
       => \A k \in AllKeys :
            (/\ cookieHistory[k] # NoEntry
             /\ cookieHistory[k].status = "blocked"
             /\ blocksKey(permissions, k)
             /\ blocksKey(permissions', k))
            => cookieHistory'[k].status = "blocked"]_vars

(***************************************************************************)
(* The handlers step by step: every await of a browser call is a point     *)
(* where another handler may run.                                          *)
(***************************************************************************)
\* no handler of the background is suspended and no message waits
quiet ==
    /\ sightingTask = Idle
    /\ blockTask = Idle
    /\ pendingMessage = {}

\* nothing at all is under way
calm == quiet /\ request = NoRequest

\* the request types of the popup that expect an answer, besides
\* UPDATE_COOKIE_PERMISSIONS, whose message is pendingMessage
queryTypes == {"GET_ACTIVE_TAB", "GET_COOKIE_STATS", "GET_ALL_COOKIE_DATA",
               "GET_AI_EXPLANATION"}

\* what chrome.storage.sync.set answers
WriteOutcomes == {"stored", "rejected"}

\* the site of the one cookie, with and without an active tab
AsyncInit ==
    /\ Init
    /\ scenario.cookies = {CookieUserEmail}

\* the popup sends a request and waits for the answer
SendQuery(type) ==
    /\ request = NoRequest
    /\ request' = [type |-> type, state |-> "sent"]
    /\ lastOp' = Op("other", {}, {})
    /\ UNCHANGED <<cookieExplanations, probe, scenario, now, activeTab, cookieStore, eventQueue, pendingMessage,
                   activeTabDomain, cookieStats, cookieHistory, storedHistory,
                   permissions, settings, unblocked, sightingTask, blockTask, overlap>>

\* the popup's callback takes the answer
QueryReturns ==
    /\ request.state = "answered"
    /\ request' = NoRequest
    /\ lastOp' = Op("other", {}, {})
    /\ UNCHANGED <<cookieExplanations, probe, scenario, now, activeTab, cookieStore, eventQueue, pendingMessage,
                   activeTabDomain, cookieStats, cookieHistory, storedHistory,
                   permissions, settings, unblocked, sightingTask, blockTask, overlap>>

\* GET_ACTIVE_TAB: sendResponse(tabs[0]), whatever tabs holds
AnswerActiveTab ==
    /\ request = [type |-> "GET_ACTIVE_TAB", state |-> "sent"]
    /\ request' = [request EXCEPT !.state = "answered"]
    /\ lastOp' = Op("other", {}, {})
    /\ UNCHANGED <<cookieExplanations, probe, scenario, now, activeTab, cookieStore, eventQueue, pendingMessage,
                   activeTabDomain, cookieStats, cookieHistory, storedHistory,
                   permissions, settings, unblocked, sightingTask, blockTask, overlap>>

\* GET_COOKIE_STATS: sendResponse(stats) inside if (tabs.length > 0 && tabs[0].url);
\* without a tab the callback returns and the request is dropped
AnswerCookieStats ==
    /\ request = [type |-> "GET_COOKIE_STATS", state |-> "sent"]
    /\ IF activeTab # NoTab
       THEN LET r == updateCookieStats(activeTab.url, cookieStore, cookieHistory,
                                       permissions, activeTabDomain, now)
            IN  /\ cookieHistory' = r.history
                /\ cookieStats' = r.stats
                /\ request' = [request EXCEPT !.state = "answered"]
       ELSE /\ UNCHANGED <<cookieHistory, cookieStats>>
            /\ request' = [request EXCEPT !.state = "dropped"]
    /\ lastOp' = Op("other", {}, {})
    /\ UNCHANGED <<cookieExplanations, probe, scenario, now, activeTab, cookieStore, eventQueue, pendingMessage,
                   activeTabDomain, storedHistory, permissions, settings, unblocked,
                   sightingTask, blockTask, overlap>>

\* GET_ALL_COOKIE_DATA: getAllCookieData() resolves on every path, then sendResponse(data)
AnswerAllCookieData ==
    /\ request = [type |-> "GET_ALL_COOKIE_DATA", state |-> "sent"]
    /\ request' = [request EXCEPT !.state = "answered"]
    /\ lastOp' = Op("other", {}, {})
    /\ UNCHANGED <<cookieExplanations, probe, scenario, now, activeTab, cookieStore, eventQueue, pendingMessage,
                   activeTabDomain, cookieStats, cookieHistory, storedHistory,
                   permissions, settings, unblocked, sightingTask, blockTask, overlap>>

\* GET_AI_EXPLANATION: getAIExplanation() falls back to a canned text when the
\* fetch fails, then sendResponse({ explanation })
AnswerAIExplanation ==
    /\ request = [type |-> "GET_AI_EXPLANATION", state |-> "sent"]
    /\ request' = [request EXCEPT !.state = "answered"]
    /\ lastOp' = Op("other", {}, {})
    /\ UNCHANGED <<cookieExplanations, probe, scenario, now, activeTab, cookieStore, eventQueue, pendingMessage,
                   activeTabDomain, cookieStats, cookieHistory, storedHistory,
                   permissions, settings, unblocked, sightingTask, blockTask, overlap>>

\* what the handlers read and write, as one record
snapshot ==
    [store |-> cookieStore, queue |-> eventQueue, history |-> cookieHistory,
     stored |-> storedHistory, perms |-> permissions, stats |-> cookieStats,
     domain |-> activeTabDomain]

NoSighting == [kind |-> "none"]
NoMessage == [action |-> "none"]

\* overlap.state: "none" while nothing runs; "open" once a sighting handler or
\* a user block has started from a quiet state, with the state it started
\* from; "both" once the other of the two has started for the same key before
\* the first has finished; "off" when anything else runs beside them

\* overlap after a sighting handler starts; desc says which, keys are the keys
\* of the cookies it is going to sight
sightingBegins(desc, keys) ==
    IF quiet
    THEN [state |-> "open", start |-> snapshot, sighting |-> desc, message |-> NoMessage]
    ELSE IF /\ overlap.state = "open"
            /\ overlap.sighting = NoSighting
            /\ KeyTable[overlap.message.cookie] \in keys
         THEN [overlap EXCEPT !.state = "both", !.sighting = desc]
         ELSE [state |-> "off"]

\* overlap after the popup has acted on a cookie and sent msg
userActionBegins(msg) ==
    IF sightingTask = Idle
    THEN IF isBlocking(msg.action, msg.allowedDataTypes)
         THEN [state |-> "open", start |-> snapshot, sighting |-> NoSighting,
               message |-> msg]
         ELSE [state |-> "off"]
    ELSE IF /\ overlap.state = "open"
            /\ overlap.message = NoMessage
            /\ isBlocking(msg.action, msg.allowedDataTypes)
            /\ \/ /\ overlap.sighting.kind = "cookieSet"
                  /\ KeyTable[overlap.sighting.cookie] = KeyTable[msg.cookie]
               \/ /\ overlap.sighting.kind # "cookieSet"
                  /\ \E i \in 1..Len(sightingTask.cookies) :
                        KeyTable[sightingTask.cookies[i]] = KeyTable[msg.cookie]
         THEN [overlap EXCEPT !.state = "both", !.message = msg]
         ELSE [state |-> "off"]

\* overlap after a handler has finished; othersIdle: no other one is under way
handlerEnds(othersIdle) == IF othersIdle THEN NoOverlap ELSE overlap

\* handleCookieAction while a handler of the background may be suspended
UserActs(entry, action, allowed, o) ==
    /\ blockTask = Idle
    /\ PopupActs(entry, action, allowed, o)
    /\ overlap' = userActionBegins([cookie |-> cookieOfEntry(entry),
                                    allowedDataTypes |-> allowed, action |-> action])
    /\ UNCHANGED <<request, sightingTask, blockTask>>

\* handleCookiePermissionsUpdate up to its first await: chrome.storage.sync.set
\* stores the permission record, or rejects, and then the handler is over and
\* .then(() => sendResponse(...)) never runs
BlockWritesPermission(w) ==
    /\ pendingMessage # {}
    /\ blockTask = Idle
    /\ LET msg == CHOOSE m \in pendingMessage : TRUE
       IN  IF w = "stored"
           THEN /\ permissions' =
                      [permissions EXCEPT ![KeyTable[msg.cookie]] =
                          userPermission(msg.cookie, msg.allowedDataTypes, msg.action)]
                /\ blockTask' = [pc |-> "written"]
                /\ UNCHANGED overlap
           ELSE /\ UNCHANGED permissions
                /\ blockTask' = [pc |-> "failed"]
                /\ overlap' = [state |-> "off"]
    /\ lastOp' = Op("other", {}, {})
    /\ unblocked' = {}
    /\ UNCHANGED <<cookieExplanations, probe, scenario, now, activeTab, cookieStore, eventQueue, pendingMessage,
                   activeTabDomain, cookieStats, cookieHistory, storedHistory,
                   settings, request, sightingTask>>

\* handleCookiePermissionsUpdate from the ledger entry to the removal of the cookie
BlockUpdatesLedger(o) ==
    /\ blockTask = [pc |-> "written"]
    /\ LET msg == CHOOSE m \in pendingMessage : TRUE
           cookie == msg.cookie
           cookieKey == KeyTable[cookie]
           blocking == isBlocking(msg.action, msg.allowedDataTypes)
           history == applyUserAction(cookieHistory, cookieKey, blocking, now)
           rem == IF blocking
                  THEN cookiesRemove(cookieStore, eventQueue, getCookieUrl(cookie),
                                     cookie.name, o)
                  ELSE [store |-> cookieStore, queue |-> eventQueue]
       IN  /\ cookieHistory' = history
           /\ storedHistory' = IF cookieHistory[cookieKey] # NoEntry
                               THEN history ELSE storedHistory
           /\ cookieStore' = rem.store
           /\ eventQueue' = rem.queue
    /\ blockTask' = [pc |-> "removed"]
    /\ lastOp' = Op("other", {}, {})
    /\ unblocked' = {}
    /\ UNCHANGED <<cookieExplanations, probe, scenario, now, activeTab, pendingMessage, activeTabDomain, cookieStats,
                   permissions, settings, request, sightingTask, overlap>>

\* handleCookiePermissionsUpdate from tabs.query on, then sendResponse({ success: true })
BlockFinishes ==
    /\ blockTask = [pc |-> "removed"]
    /\ IF activeTab # NoTab
       THEN LET r == updateCookieStats(activeTab.url, cookieStore, cookieHistory,
                                       permissions, activeTabDomain, now)
            IN  cookieHistory' = r.history /\ cookieStats' = r.stats
       ELSE UNCHANGED <<cookieHistory, cookieStats>>
    /\ pendingMessage' = {}
    /\ blockTask' = Idle
    /\ overlap' = handlerEnds(sightingTask = Idle)
    /\ lastOp' = Op("other", {}, {})
    /\ unblocked' = {}
    /\ UNCHANGED <<cookieExplanations, probe, scenario, now, activeTab, cookieStore, eventQueue, activeTabDomain,
                   storedHistory, permissions, settings, request, sightingTask>>

\* the listeners that scan a page
scanKinds == {"tabUpdated", "navCompleted"}

\* scanExistingCookies over a list of cookies read earlier
scanOver(cookies, store, queue, history, stored, perms, autoBlock, domain, t, outcome) ==
    scanResult(scanLoop(cookies, 1,
                        [store |-> store, queue |-> queue, history |-> history,
                         perms |-> perms, thrown |-> FALSE, seen |-> {},
                         issued |-> {}],
                        autoBlock, domain, t, outcome),
               stored)

\* a page has loaded: the listener calls scanExistingCookies(url), which reads
\* the cookie list and the auto-block setting and is suspended
ScanStarts(url, kind) ==
    /\ sightingTask = Idle
    /\ isHttpUrl(url)
    /\ LET cookies == getAll(cookieStore, url)
       IN  /\ sightingTask' = [pc |-> "scanning", kind |-> kind, url |-> url,
                               cookies |-> cookies,
                               autoBlock |-> settings.autoBlockHighRisk]
           /\ overlap' = sightingBegins([kind |-> kind, url |-> url],
                                        {KeyTable[cookies[i]] : i \in 1..Len(cookies)})
    /\ activeTabDomain' = IF kind = "tabUpdated" THEN url.hostname ELSE activeTabDomain
    /\ lastOp' = Op("other", {}, {})
    /\ unblocked' = {}
    /\ UNCHANGED <<cookieExplanations, probe, scenario, now, activeTab, cookieStore, eventQueue, pendingMessage,
                   cookieStats, cookieHistory, storedHistory, permissions, settings,
                   request, blockTask>>

\* the scan goes through the list it read, on the state as it is now; the
\* tabs.onUpdated listener then updates the stats
ScanResumes(outcome) ==
    /\ sightingTask # Idle
    /\ sightingTask.pc = "scanning"
    /\ LET sc == scanOver(sightingTask.cookies, cookieStore, eventQueue, cookieHistory,
                          storedHistory, permissions, sightingTask.autoBlock,
                          activeTabDomain, now, outcome)
       IN  /\ Len(sc.queue) <= MaxQueue
           /\ cookieStore' = sc.store
           /\ eventQueue' = sc.queue
           /\ permissions' = sc.perms
           /\ storedHistory' = sc.stored
           /\ IF sightingTask.kind = "tabUpdated"
              THEN LET r == updateCookieStats(sightingTask.url, sc.store, sc.history,
                                              sc.perms, activeTabDomain, now)
                   IN  cookieHistory' = r.history /\ cookieStats' = r.stats
              ELSE cookieHistory' = sc.history /\ UNCHANGED cookieStats
    /\ sightingTask' = Idle
    /\ overlap' = handlerEnds(blockTask = Idle /\ pendingMessage = {})
    /\ lastOp' = Op("other", {}, {})
    /\ unblocked' = {}
    /\ UNCHANGED <<cookieExplanations, probe, scenario, now, activeTab, pendingMessage, activeTabDomain, settings,
                   request, blockTask>>

\* chrome.cookies.onChanged, the cookie was set: the ledger entry, the save,
\* and the listener is suspended in analyzeCookie
CookieSetSights ==
    /\ sightingTask = Idle
    /\ eventQueue # <<>>
    /\ ~Head(eventQueue).removed
    /\ LET cookie == Head(eventQueue).cookie
           potentialData == PotentialDataTable[cookie]
           riskScore == calculateRiskScore(cookie, potentialData, activeTabDomain, now)
           seen == recordSighting(cookieHistory, cookie, potentialData, riskScore, now)
       IN  /\ cookieHistory' = seen
           /\ storedHistory' = seen
           /\ sightingTask' = [pc |-> "sighted", cookie |-> cookie]
           /\ overlap' = sightingBegins([kind |-> "cookieSet", cookie |-> cookie],
                                        {KeyTable[cookie]})
    /\ eventQueue' = Tail(eventQueue)
    /\ lastOp' = Op("other", {}, {})
    /\ unblocked' = {}
    /\ UNCHANGED <<cookieExplanations, probe, scenario, now, activeTab, cookieStore, pendingMessage, activeTabDomain,
                   cookieStats, permissions, settings, request, blockTask>>

\* the listener reads the permission record with shouldBlockCookie and, when
\* it blocks, marks the entry and removes the cookie; a removal that rejects
\* ends the listener
CookieSetEnforces(o) ==
    /\ sightingTask # Idle
    /\ sightingTask.pc = "sighted"
    /\ LET cookie == sightingTask.cookie
           shouldBlock == shouldBlockCookie(permissions, cookie)
           marked == IF shouldBlock
                     THEN markBlocked(cookieHistory, KeyTable[cookie], FALSE, now)
                     ELSE cookieHistory
           rem == IF shouldBlock
                  THEN cookiesRemove(cookieStore, eventQueue, getCookieUrl(cookie),
                                     cookie.name, o)
                  ELSE [store |-> cookieStore, queue |-> eventQueue]
           thrown == shouldBlock /\ o = "rejected"
       IN  /\ Len(rem.queue) <= MaxQueue
           /\ cookieHistory' = marked
           /\ storedHistory' = IF shouldBlock /\ cookieHistory[KeyTable[cookie]] # NoEntry
                               THEN marked ELSE storedHistory
           /\ cookieStore' = rem.store
           /\ eventQueue' = rem.queue
           /\ IF thrown
              THEN /\ sightingTask' = Idle
                   /\ overlap' = handlerEnds(blockTask = Idle /\ pendingMessage = {})
              ELSE /\ sightingTask' = [sightingTask EXCEPT !.pc = "enforced"]
                   /\ UNCHANGED overlap
    /\ lastOp' = Op("other", {}, {})
    /\ unblocked' = {}
    /\ UNCHANGED <<cookieExplanations, probe, scenario, now, activeTab, pendingMessage, activeTabDomain, cookieStats,
                   permissions, settings, request, blockTask>>

\* the listener's tabs.query and updateCookieStats
CookieSetFinishes ==
    /\ sightingTask # Idle
    /\ sightingTask.pc = "enforced"
    /\ IF activeTab # NoTab
       THEN LET r == updateCookieStats(activeTab.url, cookieStore, cookieHistory,
                                       permissions, activeTabDomain, now)
            IN  cookieHistory' = r.history /\ cookieStats' = r.stats
       ELSE UNCHANGED <<cookieHistory, cookieStats>>
    /\ sightingTask' = Idle
    /\ overlap' = handlerEnds(blockTask = Idle /\ pendingMessage = {})
    /\ lastOp' = Op("other", {}, {})
    /\ unblocked' = {}
    /\ UNCHANGED <<cookieExplanations, probe, scenario, now, activeTab, cookieStore, eventQueue, pendingMessage,
                   activeTabDomain, storedHistory, permissions, settings, request,
                   blockTask>>

\* what the background does on its own once it has been asked to
HandlerStep ==
    \/ AnswerActiveTab
    \/ AnswerCookieStats
    \/ AnswerAllCookieData
    \/ AnswerAIExplanation
    \/ \E w \in WriteOutcomes : BlockWritesPermission(w)
    \/ \E o \in RemoveOutcomes : BlockUpdatesLedger(o)
    \/ BlockFinishes
    \/ \E outcome \in OutcomeMaps : ScanResumes(outcome)
    \/ CookieSetSights
    \/ \E o \in RemoveOutcomes : CookieSetEnforces(o)
    \/ CookieSetFinishes

\* The page, the settings and the popup's queries act while nothing else is
\* under way; a user action and a page load may come while a handler is
\* suspended.
AsyncNext ==
    \/ calm /\ \E c \in scenario.cookies : PageSetsCookie(c)
    \/ calm /\ CookieRemoved
    \/ calm /\ \E autoBlock \in scenario.autoBlock : SaveSettings(autoBlock)
    \/ calm /\ \E type \in queryTypes : SendQuery(type)
    \/ QueryReturns
    \/ /\ request = NoRequest
       /\ \E entry \in popupEntries, action \in permissionActions, o \in RemoveOutcomes :
             \E allowed \in dataTypesToAllow(entry, action) :
               UserActs(entry, action, allowed, o)
    \/ /\ request = NoRequest
       /\ \E url \in scenario.urls, kind \in scanKinds : ScanStarts(url, kind)
    \/ HandlerStep

\* the browser runs every callback and every continuation that is ready
AsyncSpec == AsyncInit /\ [][AsyncNext]_vars /\ WF_vars(HandlerStep)

\* C15: every request of type GET_ACTIVE_TAB, UPDATE_COOKIE_PERMISSIONS,
\* GET_COOKIE_STATS, GET_ALL_COOKIE_DATA and GET_AI_EXPLANATION is answered
\* in the end, also without an active tab and also when a storage or
\* cookie-store call of the handler fails.
C15_EveryRequestIsAnswered ==
    /\ \A type \in queryTypes :
          (request = [type |-> type, state |-> "sent"])
              ~> (request = [type |-> type, state |-> "answered"])
    /\ (pendingMessage # {}) ~> (pendingMessage = {})

(***************************************************************************)
(* The handlers as functions of the state they start from, s a record like *)
(* snapshot: what each leaves when it runs from start to end alone.        *)
(***************************************************************************)
\* the popup's own removal of the cookie before it sends the message
handleCookieAction(s, msg, o) ==
    IF msg.action = "block" \/ (msg.action = "custom" /\ msg.allowedDataTypes = {})
    THEN LET rem == cookiesRemove(s.store, s.queue, getCookieUrl(msg.cookie),
                                  msg.cookie.name, o)
         IN  [s EXCEPT !.store = rem.store, !.queue = rem.queue]
    ELSE s

\* the stats pass that ends a handler, on the active tab if there is one
statsPass(s, url, hasTab) ==
    IF hasTab
    THEN LET r == updateCookieStats(url, s.store, s.history, s.perms, s.domain, now)
         IN  [s EXCEPT !.history = r.history, !.stats = r.stats]
    ELSE s

handleCookiePermissionsUpdate(s, msg, o) ==
    LET cookieKey == KeyTable[msg.cookie]
        blocking == isBlocking(msg.action, msg.allowedDataTypes)
        history == applyUserAction(s.history, cookieKey, blocking, now)
        rem == IF blocking
               THEN cookiesRemove(s.store, s.queue, getCookieUrl(msg.cookie),
                                  msg.cookie.name, o)
               ELSE [store |-> s.store, queue |-> s.queue]
    IN  statsPass([s EXCEPT !.perms = [@ EXCEPT ![cookieKey] =
                                          userPermission(msg.cookie, msg.allowedDataTypes,
                                                         msg.action)],
                            !.history = history,
                            !.stored = IF s.history[cookieKey] # NoEntry
                                       THEN history ELSE @,
                            !.store = rem.store,
                            !.queue = rem.queue],
                  activeTab.url, activeTab # NoTab)

\* the cookie-changed listener for a cookie that was set
cookieChanged(s, cookie, o) ==
    LET potentialData == PotentialDataTable[cookie]
        riskScore == calculateRiskScore(cookie, potentialData, s.domain, now)
        seen == recordSighting(s.history, cookie, potentialData, riskScore, now)
        shouldBlock == shouldBlockCookie(s.perms, cookie)
        marked == IF shouldBlock THEN markBlocked(seen, KeyTable[cookie], FALSE, now)
                  ELSE seen
        rem == IF shouldBlock
               THEN cookiesRemove(s.store, s.queue, getCookieUrl(cookie), cookie.name, o)
               ELSE [store |-> s.store, queue |-> s.queue]
    IN  statsPass([s EXCEPT !.history = marked, !.stored = marked,
                            !.store = rem.store, !.queue = rem.queue],
                  activeTab.url, activeTab # NoTab /\ ~(shouldBlock /\ o = "rejected"))

\* the scan of a page that has loaded, with the stats pass of tabs.onUpdated
pageLoaded(s, kind, url, autoBlock, outcome) ==
    LET domain == IF kind = "tabUpdated" THEN url.hostname ELSE s.domain
        sc == scanExistingCookies(url, s.store, s.queue, s.history, s.stored, s.perms,
                                  autoBlock, domain, now, outcome)
    IN  statsPass([s EXCEPT !.store = sc.store, !.queue = sc.queue,
                            !.history = sc.history, !.stored = sc.stored,
                            !.perms = sc.perms, !.domain = domain],
                  url, kind = "tabUpdated")

\* the sighting handler of an overlap, alone
sightingRun(s, sighting, o) ==
    IF sighting.kind = "cookieSet"
    THEN cookieChanged(s, sighting.cookie, o)
    ELSE pageLoaded(s, sighting.kind, sighting.url, settings.autoBlockHighRisk,
                    [c \in CookieUniverse |-> o])

\* the user block of an overlap, alone: the popup, then the background
userBlockRun(s, msg, o1, o2) ==
    handleCookiePermissionsUpdate(handleCookieAction(s, msg, o1), msg, o2)

\* a ledger without its lastSeen stamps
ledgerButLastSeen(history) ==
    [k \in AllKeys |->
        IF history[k] = NoEntry THEN NoEntry ELSE [history[k] EXCEPT !.lastSeen = 0]]

\* what two runs are compared on: the cookie store, the permission store and
\* the ledger but for lastSeen
stateOf(s) ==
    [store |-> s.store, perms |-> s.perms, history |-> ledgerButLastSeen(s.history)]

\* the states the two sequential orders end in, whatever the browser answers
\* to the removals
sequentialEnds(start, sighting, msg) ==
    {stateOf(userBlockRun(sightingRun(start, sighting, o), msg, o1, o2)) :
        o \in RemoveOutcomes, o1 \in RemoveOutcomes, o2 \in RemoveOutcomes}
    \cup
    {stateOf(sightingRun(userBlockRun(start, msg, o1, o2), sighting, o)) :
        o \in RemoveOutcomes, o1 \in RemoveOutcomes, o2 \in RemoveOutcomes}

\* the step that ends the later of two overlapping handlers
overlapEnds == overlap.state = "both" /\ overlap'.state = "none"

\* C19: when a sighting handler (a cookie-set event handler, or a page scan
\* working from the cookie list it read at its start) overlaps at its await
\* points with a user block of the same key, the state once both have
\* finished is the state of one of the two sequential orders, but for
\* lastSeen; in particular the ledger entry has status 'blocked' with
\* blockedAt set and the permission record is blocking.
C19_OverlapEqualsASequentialOrder ==
    [][overlapEnds =>
         LET k == KeyTable[overlap.message.cookie]
         IN  /\ stateOf(snapshot')
                   \in sequentialEnds(overlap.start, overlap.sighting, overlap.message)
             /\ cookieHistory'[k] # NoEntry
             /\ cookieHistory'[k].status = "blocked"
             /\ cookieHistory'[k].blockedAt # Unset
             /\ blocksKey(permissions', k)]_vars

(***************************************************************************)
(* The life of the extension's data: the user clears it, the browser stops *)
(* and restarts the service worker.                                        *)
(***************************************************************************)
\* clearData of the popup: chrome.storage.sync.clear(), then
\* chrome.storage.local.remove(['cookieHistory', 'cookieExplanations'])
ClearData ==
    /\ pendingMessage = {}
    /\ permissions' = [k \in AllKeys |-> NoPermission]
    /\ settings' = [autoBlockHighRisk |-> FALSE]
    /\ storedHistory' = [k \in AllKeys |-> NoEntry]
    /\ lastOp' = Op("other", {}, {})
    /\ unblocked' = {}
    /\ UNCHANGED <<cookieExplanations, probe, asyncVars, scenario, now, activeTab, cookieStore, eventQueue,
                   pendingMessage, activeTabDomain, cookieStats, cookieHistory>>

\* The browser has stopped the idle service worker and an event starts it
\* again: the module state is initialised, cookieHistory is loaded from
\* chrome.storage.local, and the script's last statement computes the stats of
\* the active tab.
WorkerRestarts ==
    /\ pendingMessage = {}
    /\ IF activeTab # NoTab /\ isHttpUrl(activeTab.url)
       THEN LET r == updateCookieStats(activeTab.url, cookieStore, storedHistory,
                                       permissions, activeTab.url.hostname, now)
            IN  /\ activeTabDomain' = activeTab.url.hostname
                /\ cookieHistory' = r.history
                /\ cookieStats' = r.stats
       ELSE /\ activeTabDomain' = <<>>
            /\ cookieHistory' = storedHistory
            /\ cookieStats' = [total |-> 0, suspicious |-> 0, blocked |-> 0, allowed |-> 0]
    /\ lastOp' = Op("other", {}, {})
    /\ unblocked' = {}
    /\ UNCHANGED <<cookieExplanations, probe, asyncVars, scenario, now, activeTab, cookieStore, eventQueue,
                   pendingMessage, storedHistory, permissions, settings>>

\* the site of the one cookie
LifecycleInit ==
    /\ Init
    /\ scenario.cookies = {CookieUserEmail}

LifecycleNext ==
    \/ Next
    \/ ClearData
    \/ WorkerRestarts

LifecycleSpec == LifecycleInit /\ [][LifecycleNext]_vars

\* C21: a ledger entry, once created for a key, is never removed from the
\* ledger by any operation of the extension, neither from the ledger in
\* memory nor from its persisted copy.
C21_EntryIsNeverDeleted ==
    [][\A k \in AllKeys :
          /\ cookieHistory[k] # NoEntry => cookieHistory'[k] # NoEntry
          /\ storedHistory[k] # NoEntry => storedHistory'[k] # NoEntry]_vars

(***************************************************************************)
(* The pure functions, called with the probe cookies at any moment of a    *)
(* run in which time passes and the user changes tabs.                     *)
(***************************************************************************)
\* the tabs the user changes between
ProbeTabs == {[url |-> UrlShop], [url |-> UrlShopHttp], [url |-> UrlBrowser], NoTab}

\* no remembered call
NoCall == [name |-> <<>>, value |-> <<>>, result |-> {}, called |-> FALSE]

\* detectPotentialData(cookie) is called; first keeps one earlier call of it
Classifies(cookie, remember) ==
    /\ probe' = [op |-> "classify", cookie |-> cookie,
                 result |-> PotentialDataTable[cookie],
                 first |-> IF remember
                           THEN [name |-> cookie.name, value |-> cookie.value,
                                 result |-> PotentialDataTable[cookie], called |-> TRUE]
                           ELSE IF probe.op = "classify" THEN probe.first ELSE NoCall]
    /\ UNCHANGED <<cookieExplanations, asyncVars, scenario, now, activeTab,
                   cookieStore, eventQueue,
                   pendingMessage, activeTabDomain, cookieStats, cookieHistory,
                   storedHistory, permissions, settings, lastOp, unblocked>>

\* the user changes to another tab
ProbeTabActivated(tab) ==
    /\ tab # activeTab
    /\ TabActivated(tab)

\* no remembered call of the scorer
NoScore == [called |-> FALSE]

\* the category sets the scorer is called with for a cookie: what the
\* classifier finds, and that with one more category
DetectedSets(cookie) ==
    {PotentialDataTable[cookie], PotentialDataTable[cookie] \cup {"shopping_data"}}

\* call b is call a with more categories or tracker patterns and all else fixed
oneMore(a, b) ==
    /\ a.cookie.domain = b.cookie.domain
    /\ a.cookie.path = b.cookie.path
    /\ a.cookie.secure = b.cookie.secure
    /\ a.cookie.expirationDate = b.cookie.expirationDate
    /\ a.domain = b.domain
    /\ a.time = b.time
    /\ a.data \subseteq b.data
    /\ a.trackers <= b.trackers

\* calculateRiskScore(cookie, potentialData) is called; when this call is the
\* call before it with one more, prev keeps that call's score and what is more
Scores(cookie, potentialData) ==
    LET call == [called |-> TRUE, cookie |-> cookie, data |-> potentialData,
                 trackers |-> TrackerTable[cookie], page |-> activeTab,
                 domain |-> activeTabDomain, time |-> now,
                 result |-> calculateRiskScore(cookie, potentialData, activeTabDomain, now)]
    IN  /\ probe' = [op |-> "score", call |-> call,
                     prev |-> IF probe.op = "score" /\ probe.call # call
                                 /\ oneMore(probe.call, call)
                              THEN [called |-> TRUE, result |-> probe.call.result,
                                    moreData |-> probe.call.data # potentialData,
                                    moreTrackers |->
                                        probe.call.trackers < TrackerTable[cookie]]
                              ELSE NoScore]
        /\ UNCHANGED <<cookieExplanations, asyncVars, scenario, now, activeTab,
                   cookieStore, eventQueue,
                       pendingMessage, activeTabDomain, cookieStats, cookieHistory,
                       storedHistory, permissions, settings, lastOp, unblocked>>

\* GET_COOKIE_STATS is sent and what comes back: nothing when tabs.query finds
\* no tab with a url, else what updateCookieStats returns
StatsRequested ==
    /\ IF activeTab # NoTab
       THEN LET r == updateCookieStats(activeTab.url, cookieStore, cookieHistory,
                                       permissions, activeTabDomain, now)
            IN  /\ cookieHistory' = r.history
                /\ cookieStats' = r.stats
                /\ probe' = [op |-> "stats", page |-> activeTab, answered |-> TRUE,
                             stats |-> r.stats]
       ELSE /\ UNCHANGED <<cookieHistory, cookieStats>>
            /\ probe' = [op |-> "stats", page |-> activeTab, answered |-> FALSE]
    /\ lastOp' = Op("other", {}, {})
    /\ UNCHANGED <<cookieExplanations, asyncVars, scenario, now, activeTab, cookieStore,
                   eventQueue, pendingMessage, activeTabDomain, storedHistory,
                   permissions, settings, unblocked>>

\* the content script's keyword table: the background's without four keywords
contentDataPatterns ==
    [dataPatterns EXCEPT
        !.browsing_behavior = @ \ {<<"v","i","s","i","t","o","r">>},
        !.preferences = @ \ {<<"p","r","e","f">>},
        !.session_data = @ \ {<<"s","i","d">>},
        !.demographic_data = @ \ {<<"d","e","m","o","g","r","a","p","h","i","c">>}]

\* the content script's detectPotentialData(cookie)
contentDetectPotentialData(cookie) ==
    LET cookieStr == toLowerCase(cookie.name \o <<"=">> \o cookie.value)
    IN  {dataType \in DOMAIN contentDataPatterns :
            \E pattern \in contentDataPatterns[dataType] : includes(cookieStr, pattern)}

ContentDataTable == [c \in ProbeCookies |-> contentDetectPotentialData(c)]

\* the content script's getRiskLevel(dataTypesCount, cookie)
getRiskLevel(dataTypesCount) ==
    IF dataTypesCount >= 3 THEN "high"
    ELSE IF dataTypesCount >= 1 THEN "medium"
    ELSE "low"

\* A cookie is scored and reported: analyzeCookie sends SUSPICIOUS_COOKIE to
\* the page when the score is suspicious and the active tab is an http(s) page,
\* and the content script works out the level of its notification;
\* getAllCookieData works out the level for the popup's list and the export.
CookieReported(cookie) ==
    LET riskScore == calculateRiskScore(cookie, PotentialDataTable[cookie],
                                        activeTabDomain, now)
        notified == /\ riskScore >= SuspiciousThreshold
                    /\ activeTab # NoTab
                    /\ isHttpUrl(activeTab.url)
    IN  /\ probe' = [op |-> "report", cookie |-> cookie, riskScore |-> riskScore,
                     notified |-> notified,
                     notification |->
                         IF notified
                         THEN getRiskLevel(Cardinality(ContentDataTable[cookie]))
                         ELSE "none",
                     list |-> riskLevelOf(riskScore),
                     export |-> riskLevelOf(riskScore)]
        /\ UNCHANGED <<cookieExplanations, asyncVars, scenario, now, activeTab,
                       cookieStore, eventQueue, pendingMessage, activeTabDomain,
                       cookieStats, cookieHistory, storedHistory, permissions,
                       settings, lastOp, unblocked>>

ProbeInit ==
    /\ Init
    /\ scenario = [cookies |-> {CookieUserEmail}, tab |-> [url |-> UrlShop],
                   urls |-> {UrlShop}, autoBlock |-> BOOLEAN]
    /\ cookieStore = scenario.cookies

ProbeNext ==
    \/ Tick
    \/ \E tab \in ProbeTabs : ProbeTabActivated(tab)
    \/ \E cookie \in ProbeCookies, remember \in BOOLEAN : Classifies(cookie, remember)
    \/ \E cookie \in ProbeCookies : CookieReported(cookie)

ProbeSpec == ProbeInit /\ [][ProbeNext]_vars

ScoreNext ==
    \/ \E tab \in ProbeTabs : ProbeTabActivated(tab)
    \/ \E cookie \in ProbeCookies : \E potentialData \in DetectedSets(cookie) :
          Scores(cookie, potentialData)
    \/ StatsRequested

ScoreSpec == ProbeInit /\ [][ScoreNext]_vars

\* the categories of the keyword table for a name and a value, and nothing else
categoriesOf(name, value) ==
    LET text == toLowerCase(name \o <<"=">> \o value)
    IN  {category \in DOMAIN dataPatterns :
            \E keyword \in dataPatterns[category] : includes(text, keyword)}

CategoriesTable ==
    [n \in ProbeNames |-> [v \in ProbeValues |-> categoriesOf(n, v)]]

\* C22: classify is deterministic: two calls with the same name and value
\* return the same set of categories, whatever was called and whatever
\* changed in between, and the set depends on nothing but name and value.
C22_ClassifierIsDeterministic ==
    probe.op = "classify" =>
        /\ probe.result = CategoriesTable[probe.cookie.name][probe.cookie.value]
        /\ (/\ probe.first.called
            /\ probe.first.name = probe.cookie.name
            /\ probe.first.value = probe.cookie.value)
           => probe.result = probe.first.result

\* a second call with the same name and value, for another domain and secure
\* flag, after the clock and the active tab have changed
C22_Witness ==
    /\ probe.op = "classify"
    /\ probe.first.called
    /\ probe.first.name = probe.cookie.name
    /\ probe.first.value = probe.cookie.value
    /\ probe.result # {}
    /\ probe.cookie.domain = <<"t","r","a","c","k","e","r",".","n","e","t">>
    /\ now > 1
    /\ activeTabDomain # <<>>

\* C23: the risk score never decreases when one more category is detected or
\* one more tracker pattern matches, everything else held fixed.
C23_ScoreIsMonotone ==
    (probe.op = "score" /\ probe.prev.called) => probe.prev.result <= probe.call.result

\* a call with one more category and one more tracker pattern than the call
\* before it, on a site and with a foreign long-lived cookie
C23_Witness ==
    /\ probe.op = "score"
    /\ probe.prev.called
    /\ probe.prev.moreData
    /\ probe.prev.moreTrackers
    /\ probe.call.result >= probe.prev.result + 2
    /\ probe.call.domain # <<>>
    /\ probe.call.cookie.expirationDate # 0

(***************************************************************************)
(* GET_AI_EXPLANATION.                                                     *)
(***************************************************************************)
\* the keys of fallbackExplanations, each standing for its text
fallbackExplanations ==
    {"session", "tracking", "analytics", "advertising", "preference", "default"}
\* the text the external service returns
GeneratedText == "generated"

\* how the fetch of the external service ends: a well-formed answer, a status
\* other than 2xx, a rejection (no network, timed out), a body that is not
\* the expected JSON
FetchOutcomes == {"ok", "status", "rejected", "malformed"}

\* the catch block's choice of a fallback text
fallbackFor(cookie) ==
    LET name == toLowerCase(cookie.name)
        potentialData == cookie.potentialData
    IN  IF includes(name, <<"s","e","s","s","i","o","n">>) \/ includes(name, <<"s","i","d">>)
        THEN "session"
        ELSE IF "marketing_data" \in potentialData \/ includes(name, <<"a","d">>)
        THEN "advertising"
        ELSE IF "browsing_behavior" \in potentialData
                \/ includes(name, <<"a","n","a","l","y","t","i","c","s">>)
        THEN "analytics"
        ELSE IF "preferences" \in potentialData \/ includes(name, <<"p","r","e","f">>)
        THEN "preference"
        ELSE "default"

FallbackTable == [c \in ExplainCookies |-> fallbackFor(c)]
ExplainKeyTable == [c \in ExplainCookies |-> cookieKeyOf(c)]

\* an explanation function whose catch block throws the error again
getAIExplanationRethrows(cookie, explanations, outcome) ==
    LET cookieKey == ExplainKeyTable[cookie]
    IN  IF explanations[cookieKey] # NoText
        THEN [thrown |-> FALSE, explanation |-> explanations[cookieKey],
              explanations |-> explanations]
        ELSE IF outcome = "ok"
        THEN [thrown |-> FALSE, explanation |-> GeneratedText,
              explanations |-> [explanations EXCEPT ![cookieKey] = GeneratedText]]
        ELSE [thrown |-> TRUE, explanation |-> NoText, explanations |-> explanations]

\* getAIExplanation(cookie): the cached text, else the fetched text, which it
\* caches, else a fallback text
getAIExplanation(cookie, explanations, outcome) ==
    LET cookieKey == ExplainKeyTable[cookie]
    IN  IF explanations[cookieKey] # NoText
        THEN [thrown |-> FALSE, explanation |-> explanations[cookieKey],
              explanations |-> explanations]
        ELSE IF outcome = "ok"
        THEN [thrown |-> FALSE, explanation |-> GeneratedText,
              explanations |-> [explanations EXCEPT ![cookieKey] = GeneratedText]]
        ELSE [thrown |-> FALSE, explanation |-> FallbackTable[cookie],
              explanations |-> explanations]

\* the popup opens a cookie's details and asks for its explanation
ExplanationRequested(cookie) ==
    /\ request = NoRequest
    /\ request' = [type |-> "GET_AI_EXPLANATION", state |-> "sent", cookie |-> cookie]
    /\ lastOp' = Op("other", {}, {})
    /\ UNCHANGED <<cookieExplanations, probe, scenario, now, activeTab, cookieStore,
                   eventQueue, pendingMessage, activeTabDomain, cookieStats,
                   cookieHistory, storedHistory, permissions, settings, unblocked,
                   sightingTask, blockTask, overlap>>

\* getAIExplanation(message.cookie) settles and .then calls sendResponse; a
\* rejected promise leaves the request without an answer
ExplanationSettles(outcome) ==
    /\ request.type = "GET_AI_EXPLANATION"
    /\ request.state = "sent"
    /\ LET r == getAIExplanation(request.cookie, cookieExplanations, outcome)
       IN  /\ cookieExplanations' = r.explanations
           /\ request' = [type |-> "GET_AI_EXPLANATION",
                          state |-> IF r.thrown THEN "failed" ELSE "answered",
                          cookie |-> request.cookie,
                          cached |-> cookieExplanations[ExplainKeyTable[request.cookie]] # NoText,
                          outcome |-> outcome,
                          response |-> [explanation |-> r.explanation]]
    /\ lastOp' = Op("other", {}, {})
    /\ UNCHANGED <<probe, scenario, now, activeTab, cookieStore, eventQueue,
                   pendingMessage, activeTabDomain, cookieStats, cookieHistory,
                   storedHistory, permissions, settings, unblocked, sightingTask,
                   blockTask, overlap>>

ExplainInit ==
    /\ Init
    /\ scenario = [cookies |-> {CookieUserEmail}, tab |-> [url |-> UrlShop],
                   urls |-> {UrlShop}, autoBlock |-> BOOLEAN]
    /\ cookieStore = scenario.cookies

ExplainNext ==
    \/ \E cookie \in ExplainCookies : ExplanationRequested(cookie)
    \/ \E outcome \in FetchOutcomes : ExplanationSettles(outcome)
    \/ QueryReturns

\* the promise of a fetch settles: it resolves, or the network stack rejects it
ExplainSpec == ExplainInit /\ [][ExplainNext]_vars /\ WF_vars(\E outcome \in FetchOutcomes : ExplanationSettles(outcome))

\* C24: getAIExplanation never fails: when the external call fails, times out
\* or returns a malformed body the caller gets one of the six fallback texts,
\* and every GET_AI_EXPLANATION request is answered with an explanation.
C24_ExplanationNeverFails ==
    /\ [](request.type = "GET_AI_EXPLANATION" /\ request.state # "sent"
            => /\ request.state = "answered"
               /\ request.response.explanation # NoText
               /\ (~request.cached /\ request.outcome # "ok")
                    => request.response.explanation \in fallbackExplanations)
    /\ (request.type = "GET_AI_EXPLANATION" /\ request.state = "sent")
          ~> (request.type = "GET_AI_EXPLANATION" /\ request.state = "answered")

\* a request for a cookie without a cached text is answered with the
\* advertising fallback after the fetch has timed out
C24_Witness ==
    /\ request.type = "GET_AI_EXPLANATION"
    /\ request.state = "answered"
    /\ ~request.cached
    /\ request.outcome = "rejected"
    /\ request.response.explanation = "advertising"
    /\ cookieExplanations # [k \in ExplainKeys |-> NoText]

(***************************************************************************)
(* The popup's list (loadCurrentTabCookies).                               *)
(***************************************************************************)
\* the comparator's priority of an entry
priorityOf(entry) ==
    IF isCookieActive(entry) THEN 4
    ELSE IF isBlocked(entry) THEN 3
    ELSE IF isUnblockedButNotSet(entry) THEN 2
    ELSE IF isRemoved(entry) THEN 1
    ELSE 0

\* a comparator that orders equal priorities by ascending risk score
compareEntriesAscending(a, b) ==
    IF priorityOf(a) # priorityOf(b) THEN priorityOf(b) - priorityOf(a)
    ELSE a.riskScore - b.riskScore

\* the comparator given to sort: negative when a comes first
compareEntries(a, b) ==
    IF priorityOf(a) # priorityOf(b) THEN priorityOf(b) - priorityOf(a)
    ELSE b.riskScore - a.riskScore

\* Array.prototype.sort is stable: an entry goes behind the entries that do
\* not compare greater than it
insertEntry(list, entry) ==
    LET p == CHOOSE p \in 0..Len(list) :
                /\ \A i \in (p + 1)..Len(list) : compareEntries(list[i], entry) > 0
                /\ p = 0 \/ compareEntries(list[p], entry) <= 0
    IN  SubSeq(list, 1, p) \o <<entry>> \o SubSeq(list, p + 1, Len(list))

RECURSIVE sortCookies(_)
sortCookies(list) ==
    IF list = <<>> THEN <<>>
    ELSE insertEntry(sortCookies(SubSeq(list, 1, Len(list) - 1)), list[Len(list)])

\* the rank of an entry's display state
rankOf(entry) ==
    IF "active" \in displayStates(entry) THEN 4
    ELSE IF "blocked" \in displayStates(entry) THEN 3
    ELSE IF "unblocked-pending" \in displayStates(entry) THEN 2
    ELSE 1

\* The entries GET_ALL_COOKIE_DATA answers with, as far as the comparator reads
\* them: a live cookie's entry has the cookie's value and the status its
\* permission gives it, a ledger entry has the placeholder value and the
\* ledger's status.
ListScores == {2, 5}
ListPermissions ==
    {NoPermission, [action |-> "block", allowedDataTypes |-> {}, blocked |-> TRUE]}
ListEntries ==
    {[value |-> <<"1">>, permission |-> perm,
      status |-> IF perm # NoPermission /\ perm.blocked THEN "blocked" ELSE "active",
      riskScore |-> score] : perm \in ListPermissions, score \in ListScores}
    \cup
    {[value |-> BlockedRemovedValue, permission |-> perm, status |-> status,
      riskScore |-> score] :
        perm \in ListPermissions, status \in {"active", "blocked", "removed"},
        score \in ListScores}
MaxList == 3
CookieLists == UNION {[1..n -> ListEntries] : n \in 0..MaxList}

\* the popup has the answer of GET_ALL_COOKIE_DATA
PopupReceives(list) ==
    /\ probe = NoProbe
    /\ probe' = [op |-> "response", cookies |-> list]
    /\ UNCHANGED <<cookieExplanations, asyncVars, scenario, now, activeTab,
                   cookieStore, eventQueue, pendingMessage, activeTabDomain,
                   cookieStats, cookieHistory, storedHistory, permissions, settings,
                   lastOp, unblocked>>

\* response.cookies.sort(...)
PopupSorts ==
    /\ probe.op = "response"
    /\ probe' = [op |-> "sorted", response |-> probe.cookies,
                 cookies |-> sortCookies(probe.cookies)]
    /\ UNCHANGED <<cookieExplanations, asyncVars, scenario, now, activeTab,
                   cookieStore, eventQueue, pendingMessage, activeTabDomain,
                   cookieStats, cookieHistory, storedHistory, permissions, settings,
                   lastOp, unblocked>>

\* the popup is closed
PopupCloses ==
    /\ probe.op = "sorted"
    /\ probe' = NoProbe
    /\ UNCHANGED <<cookieExplanations, asyncVars, scenario, now, activeTab,
                   cookieStore, eventQueue, pendingMessage, activeTabDomain,
                   cookieStats, cookieHistory, storedHistory, permissions, settings,
                   lastOp, unblocked>>

SortNext ==
    \/ probe = NoProbe /\ \E list \in CookieLists : PopupReceives(list)
    \/ PopupSorts
    \/ PopupCloses

SortSpec == ProbeInit /\ [][SortNext]_vars

thirdPartyTerm(call) ==
    IF call.domain # <<>> /\ ~SameDomainTable[call.cookie.domain][call.domain]
    THEN ThirdPartyBonus ELSE 0

\* 1 if the cookie expires more than one year after the call
longLivedTerm(call) ==
    IF call.cookie.expirationDate # 0
       /\ call.cookie.expirationDate > (call.time \div MsPerSecond) + OneYear
    THEN 1 ELSE 0

\* the cookie is not secure and the page it is scored on is served over https
insecureOnSecurePage(call) ==
    ~call.cookie.secure /\ call.page.url.scheme = "https"

\* what the call added besides categories, tracker patterns, the third-party
\* bonus and the longevity bonus
insecureBonus(call) ==
    call.result - (Cardinality(call.data) + call.trackers + thirdPartyTerm(call)
                   + longLivedTerm(call))

\* C26: the risk score equals the number of detected categories, plus the
\* number of tracker patterns in the lower-cased name+value, plus 2 if an
\* active domain is known and the cookie is third-party to it, plus 1 if the
\* expiry is more than one year ahead, plus 1 if the insecure-transport
\* condition holds; it is a non-negative integer.
C26_ScoreIsSumOfTerms ==
    probe.op = "score" =>
        /\ probe.call.result \in Nat
        /\ probe.call.result
           = Cardinality(probe.call.data) + probe.call.trackers
             + thirdPartyTerm(probe.call) + longLivedTerm(probe.call)
             + (IF insecureOnSecurePage(probe.call) THEN 1 ELSE 0)

\* C27: the insecure bonus of 1 is added exactly when the cookie's secure flag
\* is false and the page is served over https; a non-secure cookie on a page
\* that is not served over https gets no bonus.
C27_InsecureBonusOnlyOnSecurePage ==
    probe.op = "score" =>
        insecureBonus(probe.call) = (IF insecureOnSecurePage(probe.call) THEN 1 ELSE 0)

\* the sum with the bonus as the scorer grants it: to every cookie that is not
\* secure, whatever the page
ScoreIsSumWithBonusForEveryInsecureCookie ==
    probe.op = "score" =>
        /\ probe.call.result \in Nat
        /\ insecureBonus(probe.call) = (IF probe.call.cookie.secure THEN 0 ELSE 1)

\* a tab without a usable http(s) url
offSite(tab) == tab = NoTab \/ ~isHttpUrl(tab.url)

\* the stats of a context without cookies
DefaultStats == [total |-> 0, suspicious |-> 0, blocked |-> 0, allowed |-> 0]

\* C28: once the active tab is one without a usable http(s) url there is no
\* active domain: a score computed there has no third-party bonus, and a stats
\* request is answered, with the default and not with the previous site's values.
C28_NoActiveDomainOffSite ==
    /\ offSite(activeTab) => activeTabDomain = <<>>
    /\ (probe.op = "score" /\ offSite(probe.call.page)) => thirdPartyTerm(probe.call) = 0
    /\ (probe.op = "stats" /\ offSite(probe.page))
          => probe.answered /\ probe.stats = DefaultStats

\* the parts of it, one by one
StaleDomainOffSite == offSite(activeTab) => activeTabDomain = <<>>
NoThirdPartyBonusOffSite ==
    (probe.op = "score" /\ offSite(probe.call.page)) => thirdPartyTerm(probe.call) = 0
StatsAnsweredOffSite == (probe.op = "stats" /\ offSite(probe.page)) => probe.answered
StatsDefaultOffSite ==
    (probe.op = "stats" /\ offSite(probe.page) /\ probe.answered)
        => probe.stats = DefaultStats

\* the level of a score: high from 5, medium from 3, else low
levelOfScore(score) ==
    IF score >= 5 THEN "high" ELSE IF score >= 3 THEN "medium" ELSE "low"

\* C29: the risk level reported for a cookie is the same function of its
\* integer risk score on every path (page notification, popup list, export):
\* 'high' from 5, 'medium' from 3, else 'low'.
C29_OneLevelOnEveryPath ==
    probe.op = "report" =>
        /\ probe.list = levelOfScore(probe.riskScore)
        /\ probe.export = levelOfScore(probe.riskScore)
        /\ probe.notified => probe.notification = levelOfScore(probe.riskScore)

\* the popup's list and the export by themselves
ListAndExportLevel ==
    probe.op = "report" =>
        /\ probe.list = levelOfScore(probe.riskScore)
        /\ probe.export = levelOfScore(probe.riskScore)

\* the first step of handleCookiePermissionsUpdate in which chrome.storage.sync.set
\* has not stored the record
permissionWriteFails ==
    /\ blockTask = Idle
    /\ blockTask' # Idle
    /\ blockTask'.pc # "written"

\* C30: when a durable-store write or read fails inside a handler (here the
\* permission write of a permission update) the failure is caught: the handler
\* does not abort with an unhandled error, and the permission store and the
\* history ledger are left as they were.
C30_StoreFailureIsCaught ==
    [][permissionWriteFails
         => /\ blockTask'.pc # "failed"
            /\ permissions' = permissions
            /\ cookieHistory' = cookieHistory
            /\ storedHistory' = storedHistory]_vars

\* the stores by themselves
StoresUntouchedByFailedWrite ==
    [][permissionWriteFails
         => /\ permissions' = permissions
            /\ cookieHistory' = cookieHistory
            /\ storedHistory' = storedHistory]_vars

(***************************************************************************)
(* Sightings of entries that were observed as removed.                     *)
(***************************************************************************)
\* the handlers that sight cookies, suspended at their awaits, and time that
\* passes between them
SightingNext ==
    \/ quiet /\ Tick
    \/ quiet /\ \E c \in scenario.cookies : PageSetsCookie(c)
    \/ quiet /\ \E c \in scenario.cookies : CookieExpires(c)
    \/ quiet /\ CookieRemoved
    \/ quiet /\ \E autoBlock \in scenario.autoBlock : SaveSettings(autoBlock)
    \/ \E url \in scenario.urls, kind \in scanKinds : ScanStarts(url, kind)
    \/ \E outcome \in OutcomeMaps : ScanResumes(outcome)
    \/ CookieSetSights
    \/ \E o \in RemoveOutcomes : CookieSetEnforces(o)
    \/ CookieSetFinishes

SightingSpec == AsyncInit /\ [][SightingNext]_vars

\* the cookie-set listener records its cookie, of key k, and is suspended
cookieSetSighting(k) ==
    /\ sightingTask = Idle
    /\ sightingTask' # Idle
    /\ sightingTask'.pc = "sighted"
    /\ KeyTable[sightingTask'.cookie] = k

\* a suspended scan goes through its list, which holds a cookie of key k
scanSighting(k) ==
    /\ sightingTask # Idle
    /\ sightingTask.pc = "scanning"
    /\ sightingTask' = Idle
    /\ \E i \in 1..Len(sightingTask.cookies) : KeyTable[sightingTask.cookies[i]] = k

\* the scan that resumes goes on to block key k: by the auto-block, or in the
\* stats pass of the tabs.onUpdated listener because a permission blocks it
scanBlocks(k) ==
    \/ /\ sightingTask.autoBlock
       /\ cookieHistory'[k].riskScore >= AutoBlockThreshold
    \/ /\ sightingTask.kind = "tabUpdated"
       /\ blocksKey(permissions', k)

C32_LedgerIsWrittenThrough ==
    storedHistory = cookieHistory

(***************************************************************************)
(* The auto-block of a page scan.                                          *)
(***************************************************************************)
\* the step is a page scan (tabs.onUpdated or webNavigation.onCompleted)
scanStep == lastOp'.type \in scanKinds

\* C33: during a page scan with autoBlockHighRisk enabled a cookie is
\* auto-blocked exactly when its risk score is at least 5; after the scan its
\* entry is 'blocked' with blockedAt set and autoBlocked = true, its removal
\* has been issued, and a permission record with action 'block' exists for
\* its key. With autoBlockHighRisk disabled the scan writes no permission
\* record.
C33_AutoBlockAtHighRisk ==
    [][scanStep =>
        /\ \A c \in lastOp'.seen :
             LET k == KeyTable[c]
             IN  IF /\ settings.autoBlockHighRisk
                    /\ cookieHistory'[k].riskScore >= AutoBlockThreshold
                 THEN /\ cookieHistory'[k].status = "blocked"
                      /\ cookieHistory'[k].blockedAt = {now}
                      /\ cookieHistory'[k].autoBlocked
                      /\ c \in lastOp'.issued
                      /\ permissions'[k] # NoPermission
                      /\ permissions'[k].action = "block"
                 ELSE /\ c \notin lastOp'.issued
                      /\ permissions'[k] = permissions[k]
        /\ ~settings.autoBlockHighRisk => permissions' = permissions]_vars

(***************************************************************************)
(* The start of the service worker: the ledger is asked from               *)
(* chrome.storage.local, and the callback that takes it runs later, after  *)
(* any cookie event the worker was woken for.                              *)
(***************************************************************************)
\* a site with two cookies of different keys, no tab open
StartupScenario ==
    [cookies |-> {CookieUserEmail, CookieSidRoot}, tab |-> NoTab,
     urls |-> {UrlShop}, autoBlock |-> {FALSE}]

StartupInit ==
    /\ scenario = StartupScenario
    /\ now = 1
    /\ activeTab = scenario.tab
    /\ cookieStore = {}
    /\ eventQueue = <<>>
    /\ pendingMessage = {}
    /\ activeTabDomain = <<>>
    /\ cookieStats = DefaultStats
    /\ cookieHistory = [k \in AllKeys |-> NoEntry]
    /\ storedHistory = [k \in AllKeys |-> NoEntry]
    /\ permissions = [k \in AllKeys |-> NoPermission]
    /\ settings = [autoBlockHighRisk |-> FALSE]
    /\ lastOp = Op("other", {}, {})
    /\ unblocked = {}
    /\ request = NoRequest
    /\ sightingTask = Idle
    /\ blockTask = Idle
    /\ overlap = NoOverlap
    /\ probe = NoProbe
    /\ cookieExplanations = [k \in ExplainKeys |-> NoText]

\* the script runs from its first line: let cookieHistory = new Map(), and
\* chrome.storage.local.get is issued; result is what the store holds then
WorkerStarts ==
    /\ probe.op # "load"
    /\ cookieHistory' = [k \in AllKeys |-> NoEntry]
    /\ cookieStats' = DefaultStats
    /\ activeTabDomain' = <<>>
    /\ probe' = [op |-> "load", result |-> storedHistory]
    /\ lastOp' = Op("other", {}, {})
    /\ unblocked' = {}
    /\ UNCHANGED <<cookieExplanations, asyncVars, scenario, now, activeTab, cookieStore,
                   eventQueue, pendingMessage, storedHistory, permissions, settings>>

\* the callback of chrome.storage.local.get: if (result.cookieHistory)
\* cookieHistory = new Map(Object.entries(result.cookieHistory))
LoadCompletes ==
    /\ probe.op = "load"
    /\ cookieHistory' = IF \E k \in AllKeys : probe.result[k] # NoEntry
                        THEN probe.result
                        ELSE cookieHistory
    /\ probe' = [probe EXCEPT !.op = "loaded"]
    /\ lastOp' = Op("other", {}, {})
    /\ unblocked' = {}
    /\ UNCHANGED <<cookieExplanations, asyncVars, scenario, now, activeTab, cookieStore,
                   eventQueue, pendingMessage, activeTabDomain, cookieStats,
                   storedHistory, permissions, settings>>

StartupNext ==
    \/ Tick
    \/ \E c \in scenario.cookies : PageSetsCookie(c)
    \/ \E c \in scenario.cookies : CookieExpires(c)
    \/ \E o \in RemoveOutcomes : CookieSet(o)
    \/ CookieRemoved
    \/ WorkerStarts
    \/ LoadCompletes

StartupSpec == StartupInit /\ [][StartupNext]_vars

\* C34: history entries persisted by a previous run and entries recorded in
\* the current run are both kept whatever the order in which the startup load
\* of the ledger completes relative to the first cookie events: an event
\* handled before the load callback runs neither loses its own entry nor
\* causes the previously persisted entries (and their firstSeen values) to be
\* overwritten in the durable store.
C34_LoadOrderLosesNothing ==
    probe.op \in {"load", "loaded"} =>
        \A k \in AllKeys :
            /\ probe.result[k] # NoEntry
                 => /\ storedHistory[k] # NoEntry
                    /\ storedHistory[k].firstSeen = probe.result[k].firstSeen
            /\ (probe.op = "loaded" /\ storedHistory[k] # NoEntry)
                 => cookieHistory[k] # NoEntry

(***************************************************************************)
(* The auto-block and the permissions the user has stored.                 *)
(***************************************************************************)
\* C35: a page scan with autoBlockHighRisk enabled never removes a cookie, and
\* never overwrites the permission record, of a key for which the user has
\* stored an explicit non-blocking permission (action 'allow', or 'custom'
\* with a non-empty allowed set).
C35_AutoBlockSparesAllowedKeys ==
    [][(scanStep /\ settings.autoBlockHighRisk) =>
        \A k \in AllKeys :
            countsAsAllowed(permissions[k])
            => /\ permissions'[k] = permissions[k]
               /\ \A c \in lastOp'.issued : KeyTable[c] # k]_vars

(***************************************************************************)
(* The statuses of the ledger and the browser's cookies.                   *)
(***************************************************************************)
\* C36: whenever no handler is in progress, every history entry with status
\* 'active' corresponds to a cookie that is present in the browser cookie
\* store; in particular a non-blocking permission update for a cookie that is
\* no longer live does not leave its entry 'active'.
C36_ActiveEntryIsLive ==
    (eventQueue = <<>> /\ pendingMessage = {}) =>
        \A k \in AllKeys :
            (cookieHistory[k] # NoEntry /\ cookieHistory[k].status = "active")
            => \E c \in cookieStore : KeyTable[c] = k

\* C37: every history entry whose status is 'blocked' has blockedAt set, after
\* any sequence of cookie events, scans, permission updates and stats
\* computations.
C37_BlockedEntryHasBlockedAt ==
    \A k \in AllKeys :
        (cookieHistory[k] # NoEntry /\ cookieHistory[k].status = "blocked")
        => cookieHistory[k].blockedAt # Unset

(***************************************************************************)
(* The stats the popup computes and the stats the background pushes.       *)
(***************************************************************************)
\* updateStats() of the popup, over the cookies of a GET_ALL_COOKIE_DATA response
updateStats(cookies) ==
    LET entries == 1..Len(cookies)
    IN  [total |-> Len(cookies),
         suspicious |->
             Cardinality({i \in entries : cookies[i].riskScore >= SuspiciousThreshold}),
         blocked |->
             Cardinality({i \in entries :
                             /\ isBlockedByPermission(cookies[i])
                             /\ cookies[i].value = BlockedRemovedValue}),
         allowed |->
             Cardinality({i \in entries : countsAsAllowed(cookies[i].permission)})]

\* C38: for the same browser cookies, history ledger and permission store, the
\* stats the popup computes by pulling GET_ALL_COOKIE_DATA (total, suspicious,
\* blocked, allowed) equal the stats the background computes in
\* updateCookieStats and pushes as STATS_UPDATED.
C38_PulledStatsEqualPushedStats ==
    (activeTab # NoTab /\ isHttpUrl(activeTab.url))
    => updateStats(popupList)
       = updateCookieStats(activeTab.url, cookieStore, cookieHistory, permissions,
                           activeTabDomain, now).stats

(***************************************************************************)
(* The content script: the list of reported cookies and the warning on     *)
(* the page.                                                               *)
(***************************************************************************)
\* most notifications one page creates, most entries its list takes
MaxShown == 2
MaxReported == 4

\* the cookies and scores SUSPICIOUS_COOKIE messages carry
MessageCookies ==
    {c \in ProbeCookies :
        /\ c.name \in {<<"_","g","a">>, <<"u","s","e","r","_","e","m","a","i","l">>}
        /\ c.value = <<"1">>
        /\ ~c.secure
        /\ c.expirationDate = 0}
MessageScores == {1, 3}

\* the script has just been injected: let suspiciousCookies = []; no
\* notification on the page. shown counts the notifications created, attached
\* holds those in the document, timers those whose 15 s timer is pending
NewPage ==
    [op |-> "page", suspiciousCookies |-> <<>>, shown |-> 0, attached |-> {},
     timers |-> {}, last |-> [riskScore |-> 0]]

\* showCookieWarning: return if the notification exists, else append one and
\* start its timer
showCookieWarningAlways(page) ==
    [page EXCEPT !.shown = @ + 1,
                 !.attached = @ \cup {page.shown + 1},
                 !.timers = @ \cup {page.shown + 1}]

showCookieWarning(page) ==
    IF page.attached # {} THEN page
    ELSE [page EXCEPT !.shown = @ + 1,
                      !.attached = {page.shown + 1},
                      !.timers = @ \cup {page.shown + 1}]

\* analyzeCookieData, with the score of the message
analyzeCookieData(cookie, riskScore) ==
    [name |-> cookie.name, domain |-> cookie.domain, value |-> cookie.value,
     potentialData |-> ContentDataTable[cookie],
     riskLevel |-> getRiskLevel(Cardinality(ContentDataTable[cookie])),
     riskScore |-> riskScore]

\* a handler that pushes without looking for the cookie in the list
handleSuspiciousCookieAlwaysPushes(page, cookie, riskScore) ==
    LET pushed == [page EXCEPT !.suspiciousCookies =
                                   Append(@, analyzeCookieData(cookie, riskScore))]
    IN  IF riskScore >= 2 THEN showCookieWarning(pushed) ELSE pushed

handleSuspiciousCookie(page, cookie, riskScore) ==
    LET existing == {i \in 1..Len(page.suspiciousCookies) :
                        /\ page.suspiciousCookies[i].name = cookie.name
                        /\ page.suspiciousCookies[i].domain = cookie.domain}
        pushed == [page EXCEPT !.suspiciousCookies =
                                   Append(@, analyzeCookieData(cookie, riskScore))]
    IN  IF existing = {}
        THEN IF riskScore >= 2 THEN showCookieWarning(pushed) ELSE pushed
        ELSE page

\* the page is loaded, or loaded again, and the content script starts
PageLoads ==
    /\ probe' = NewPage
    /\ UNCHANGED <<cookieExplanations, asyncVars, scenario, now, activeTab,
                   cookieStore, eventQueue, pendingMessage, activeTabDomain,
                   cookieStats, cookieHistory, storedHistory, permissions,
                   settings, lastOp, unblocked>>

\* chrome.runtime.onMessage of the content script, type SUSPICIOUS_COOKIE
SuspiciousCookieMessage(cookie, riskScore) ==
    /\ probe.op = "page"
    /\ LET page == handleSuspiciousCookie(probe, cookie, riskScore)
       IN  /\ page.shown <= MaxShown
           /\ Len(page.suspiciousCookies) <= MaxReported
           /\ probe' = [page EXCEPT !.last = [name |-> cookie.name,
                                              domain |-> cookie.domain,
                                              riskScore |-> riskScore]]
    /\ UNCHANGED <<cookieExplanations, asyncVars, scenario, now, activeTab,
                   cookieStore, eventQueue, pendingMessage, activeTabDomain,
                   cookieStats, cookieHistory, storedHistory, permissions,
                   settings, lastOp, unblocked>>

\* a click on Dismiss or on Manage Cookies: notification.remove()
NotificationDismissed(id) ==
    /\ probe.op = "page"
    /\ id \in probe.attached
    /\ probe' = [probe EXCEPT !.attached = @ \ {id}]
    /\ UNCHANGED <<cookieExplanations, asyncVars, scenario, now, activeTab,
                   cookieStore, eventQueue, pendingMessage, activeTabDomain,
                   cookieStats, cookieHistory, storedHistory, permissions,
                   settings, lastOp, unblocked>>

\* the timer of a notification: if (notification.parentNode) notification.remove()
NotificationTimesOut(id) ==
    /\ probe.op = "page"
    /\ id \in probe.timers
    /\ probe' = [probe EXCEPT !.timers = @ \ {id}, !.attached = @ \ {id}]
    /\ UNCHANGED <<cookieExplanations, asyncVars, scenario, now, activeTab,
                   cookieStore, eventQueue, pendingMessage, activeTabDomain,
                   cookieStats, cookieHistory, storedHistory, permissions,
                   settings, lastOp, unblocked>>

ContentNext ==
    \/ PageLoads
    \/ /\ probe.op = "page"
       /\ \E cookie \in MessageCookies, riskScore \in MessageScores :
             SuspiciousCookieMessage(cookie, riskScore)
    \/ \E id \in 1..MaxShown : NotificationDismissed(id)
    \/ \E id \in 1..MaxShown : NotificationTimesOut(id)

ContentSpec == ProbeInit /\ [][ContentNext]_vars

\* C39: in the content script the suspiciousCookies list holds each (name,
\* domain) pair at most once after any sequence of SUSPICIOUS_COOKIE messages,
\* and at most one warning notification is shown on the page at any time.
C39_OneEntryOneWarning ==
    probe.op = "page" =>
        /\ \A i, j \in 1..Len(probe.suspiciousCookies) :
              (/\ probe.suspiciousCookies[i].name = probe.suspiciousCookies[j].name
               /\ probe.suspiciousCookies[i].domain = probe.suspiciousCookies[j].domain)
              => i = j
        /\ Cardinality(probe.attached) <= 1

\* the last message reported, with another score, a cookie the list holds
\* already, while the one warning of an earlier message is on the page and the
\* list holds a later entry that asked for a warning too
C39_Witness ==
    /\ probe.op = "page"
    /\ Len(probe.suspiciousCookies) >= 2
    /\ \A i \in 1..Len(probe.suspiciousCookies) : probe.suspiciousCookies[i].riskScore >= 2
    /\ probe.attached = {1}
    /\ probe.last.riskScore = 1
    /\ \E i \in 1..Len(probe.suspiciousCookies) :
          /\ probe.suspiciousCookies[i].name = probe.last.name
          /\ probe.suspiciousCookies[i].domain = probe.last.domain

====
